---- MODULE Spec2Model ----
(***************************************************************************)
(* Model of the timing-synchronisation engine of musicollator/bwv:         *)
(* class Synchronisator (src/synchronisator.mjs) with the sortedIndex and  *)
(* debounce helpers of src/js/lodash.build.mjs, driven by an audio element *)
(* (position, play/pause/ended/seeking/seeked signals) and by animation    *)
(* frames.                                                                 *)
(*                                                                         *)
(* Time.  tickToSeconds divides by (maxTick - minTick); every time of the  *)
(* model is the integer numerator of a fraction over that denominator      *)
(* (Scale), so the map is exact.  The audio position lives on the same     *)
(* grid.  Timers count quanta of wall-clock time.                          *)
(*                                                                         *)
(* Visual elements.  One path element per resolvable href, one rect per    *)
(* bar number that has a data-bar element.                                 *)
(***************************************************************************)
EXTENDS Integers, Sequences, FiniteSets, TLC

-----------------------------------------------------------------------------
(* Bounds of the model *)

MaxTick == 3
MaxNotes == 2
MaxSignals == 1
MaxBars == 3
MaxData == 3
MaxPalette == 3
MaxFlow == 2
MaxParam == 5
MaxCount == 2
MaxPitch == 3
MaxVoices == 4

(* Program constants *)

NoBar == -1
NoHandle == 0
NoCall == -2
DebounceWait == 2
ResyncDelay == 1
SnapThresholdTenths == 1

-----------------------------------------------------------------------------
(* Generic helpers *)

Range(s) == {s[i] : i \in 1..Len(s)}

Abs(x) == IF x < 0 THEN -x ELSE x

SeqsUpTo(S, n) == UNION {[1..k -> S] : k \in 0..n}

RECURSIVE InsertByStartTime(_, _)
InsertByStartTime(x, s) ==
  IF s = <<>> THEN <<x>>
  ELSE IF x.startTime < Head(s).startTime THEN <<x>> \o s
       ELSE <<Head(s)>> \o InsertByStartTime(x, Tail(s))

\* Array.prototype.sort((a, b) => a.startTime - b.startTime): stable,
\* ascending by startTime.
RECURSIVE SortByStartTime(_)
SortByStartTime(s) ==
  IF s = <<>> THEN <<>>
  ELSE InsertByStartTime(s[Len(s)], SortByStartTime(SubSeq(s, 1, Len(s) - 1)))

-----------------------------------------------------------------------------
(* lodash sortedIndex *)

\* while (low < high) of baseSortedIndex; array is 0-based in the source,
\* so array[mid] is array[mid + 1] here.
RECURSIVE BaseSortedIndexLoop(_, _, _, _, _)
BaseSortedIndexLoop(array, value, retHighest, low, high) ==
  IF low < high
  THEN LET mid == (low + high) \div 2
           computed == array[mid + 1]
       IN IF (IF retHighest THEN computed <= value ELSE computed < value)
          THEN BaseSortedIndexLoop(array, value, retHighest, mid + 1, high)
          ELSE BaseSortedIndexLoop(array, value, retHighest, low, mid)
  ELSE high

baseSortedIndex(array, value, retHighest) ==
  BaseSortedIndexLoop(array, value, retHighest, 0, Len(array))

\* sortedIndex counting the insertion point from the end of the array.
sortedIndexFromEnd(array, value) ==
  Len(array) - baseSortedIndex(array, value, FALSE)

sortedIndex(array, value) == baseSortedIndex(array, value, FALSE)

-----------------------------------------------------------------------------
(* Core timing functions of Synchronisator *)

\* Denominator of every time of an engine built on meta m.
Scale(m) == IF m.maxTick = m.minTick THEN 1 ELSE m.maxTick - m.minTick

\* tickToSeconds counting the ticks down from maxTick.
tickToSecondsFromEnd(m, total, tick) ==
  LET musicalDuration == total - m.musicStartSeconds
  IN IF m.maxTick = m.minTick
     THEN m.musicStartSeconds * Scale(m)
     ELSE (m.maxTick - tick) * musicalDuration + m.musicStartSeconds * Scale(m)

\* tickToSeconds without the musicStartSeconds offset.
tickToSecondsNoOffset(m, total, tick) ==
  LET musicalDuration == total - m.musicStartSeconds
  IN IF m.maxTick = m.minTick
     THEN 0
     ELSE (tick - m.minTick) * musicalDuration

\* tickToSeconds, in units of 1 / Scale(m) second.
tickToSeconds(m, total, tick) ==
  LET musicalDuration == total - m.musicStartSeconds
  IN IF m.maxTick = m.minTick
     THEN m.musicStartSeconds * Scale(m)
     ELSE (tick - m.minTick) * musicalDuration + m.musicStartSeconds * Scale(m)

\* Flow item predicates of buildBarTimingsCache and processNotes.
IsBarItem(item) == item.len = 4 /\ item.tag = "bar"

IsNoteItem(item) == item.len >= 3 /\ item.tag # "bar" /\ item.tag # "fermata"

\* barTimings of buildBarTimingsCache: filter, map, sort by startTime.
BarTimings(m, total, flow) ==
  LET bars == SelectSeq(flow, IsBarItem)
      mapped == [i \in 1..Len(bars) |->
                   [barNumber |-> bars[i].a2,
                    startTime |-> tickToSeconds(m, total, bars[i].a0)]]
  IN SortByStartTime(mapped)

BarStartTimesOf(timings) == [i \in 1..Len(timings) |-> timings[i].startTime]

BarNumbersOf(timings) == [i \in 1..Len(timings) |-> timings[i].barNumber]

\* getCurrentBar answering the first bar where the source answers -1.
GetCurrentBarFromFirst(startTimes, barNumbers, currentTime) ==
  LET index == sortedIndex(startTimes, currentTime)
      timingIndex == index - 1
  IN IF timingIndex >= 0 THEN barNumbers[timingIndex + 1]
     ELSE IF Len(barNumbers) > 0 THEN barNumbers[1] ELSE NoBar

\* getCurrentBar over the two cached arrays.
GetCurrentBar(startTimes, barNumbers, currentTime) ==
  LET index == sortedIndex(startTimes, currentTime)
      timingIndex == index - 1
  IN IF timingIndex >= 0 THEN barNumbers[timingIndex + 1] ELSE NoBar

-----------------------------------------------------------------------------
(* State *)

VARIABLES
  \* inputs of the constructor
  meta,                 \* syncData.meta: minTick, maxTick, musicStartSeconds
  totalDuration,        \* config.musicalStructure.totalDurationSeconds
  visualLeadTime,       \* this.visualLeadTime, in units of 1 / Scale(meta) s
  \* Synchronisator fields
  notes,                \* this.notes: records, ascending by startTime
  barCache,             \* this.barCache: barNumber -> elements, startTime
  barStartTimesCache,   \* this.barStartTimesCache
  barNumbersCache,      \* this.barNumbersCache
  channelColorMap,      \* this.channelColorMap: channel -> colour index
  isPlaying,            \* this.isPlaying
  currentVisibleBar,    \* this.currentVisibleBar
  animationId,          \* this.animationId (NoHandle: null)
  remainingNotes,       \* this.remainingNotes: indices into notes
  activeNotes,          \* this.activeNotes: indices into notes
  \* closure state of initializeSeekingHandlers and of debounce
  userIsSeeking,
  programmaticSeek,
  timerId,              \* quanta until timerExpired runs; -1: undefined
  sinceCall,            \* now() - lastCallTime, capped at DebounceWait
  lastArgs,             \* TRUE iff lastArgs is set
  resyncTimers,         \* pending setTimeout(updateVisualSync): due, target
  \* visual collaborator
  activeEls,            \* note elements carrying the class 'active'
  visibleBars,          \* bar elements with style.visibility = 'visible'
  \* audio element and event loop
  audioTime,            \* audio.currentTime, in units of 1 / Scale(meta) s
  audioPaused,
  audioSeeking,
  sigQueue,             \* queued media events, oldest first
  listening,            \* audio._bwvEventListenersInitialized
  listenersOf,          \* the engine whose listeners are registered on the
                        \* audio element: 1 (the first engine), 2 (the engine
                        \* built after a score change), 0 (none)
  sync,                 \* the host's current engine: 1, or 2 after a rebuild
  discardedDriven,      \* a listener of the discarded engine has run
  menu,                 \* BWVNavigationMenu: currentWorkId, isNavigating, the
                        \* work of the URL, the pending loadWorkContent, and
                        \* for observation the currentWorkId before the last
                        \* loadWorkDynamically and how that call ended
  frames,               \* pending requestAnimationFrame handles
  \* observation
  lastOp,               \* what the engine did last: "sync" (syncLoop, and the
                        \* position has not changed since), "stop", "resync"
                        \* (updateVisualSync), "noop" (a method returned at
                        \* its guard) or "other"
  run,                  \* since resetNoteState: "pristine", "forward" (only
                        \* syncLoop ran, the position never moved back),
                        \* "other"; "off" when runs are not observed
  activated,            \* per note: highlightNote calls in this run
  deactivated,          \* per note: unhighlightNote calls in this run
  barChange,            \* argument of the onBarChange call of the last method
                        \* run; NoCall when it made none
  seekCall,             \* callback of the seek controller the last step of
                        \* the engine invoked: "start" (onSeekStart), "end"
                        \* (onSeekEnd) or "none"; "off" when not observed
  sinceSignal,          \* quanta since the last 'seeking' or 'seeked' event
                        \* was handled, capped at DebounceWait; -1 when not
                        \* observed
  scenD,                \* backward user seek while Playing: "sought", then
                        \* "handled" (its seeking signal), then "ticked";
                        \* end of the audio with the seek controller at rest:
                        \* "ended" (its 'ended' signal handled), "endSeeking"
                        \* and "endSettled" (the 'seeking' and 'seeked'
                        \* signals of the reset to 0 handled)
  query                 \* last two calls of the queried function: getCurrentBar
                        \* in SpecBar, tickToSeconds in SpecTick

staticVars == <<meta, totalDuration, visualLeadTime, notes, barCache,
                barStartTimesCache, barNumbersCache, channelColorMap>>
engineVars == <<isPlaying, currentVisibleBar, animationId, remainingNotes,
                activeNotes>>
seekVars == <<userIsSeeking, programmaticSeek, timerId, sinceCall, lastArgs,
              resyncTimers>>
domVars == <<activeEls, visibleBars>>
audioVars == <<audioTime, audioPaused, audioSeeking, sigQueue>>
hostVars == <<listening, listenersOf, sync, discardedDriven, menu>>
obsVars == <<lastOp, run, activated, deactivated, barChange, seekCall,
            sinceSignal>>

vars == <<staticVars, engineVars, seekVars, domVars, audioVars, hostVars,
          frames, obsVars, scenD, query>>

-----------------------------------------------------------------------------
(* Inputs *)

Hrefs == {"h1", "h2", "hx"}

\* data-ref values present in the SVG; "hx" resolves to no element.
SvgRefs == {"h1", "h2"}

BarNumbers == {0, 1, 2}

Leads == {-1, 0, 1}

NoteItem(startTick, endTick, href) ==
  [len |-> 4, a0 |-> startTick, a2 |-> endTick, tag |-> "refs", refs |-> {href}]

BarItem(tick, barNumber) ==
  [len |-> 4, a0 |-> tick, a2 |-> barNumber, tag |-> "bar", refs |-> {}]

NoteItems ==
  {NoteItem(s, e, h) : s \in 0..MaxTick, e \in 0..MaxTick, h \in Hrefs}

BarItems == {BarItem(t, b) : t \in 0..MaxTick, b \in BarNumbers}

-----------------------------------------------------------------------------
(* Construction *)

\* getElementsForHrefs over noteElementsCache.
getElementsForHrefs(hrefs) == hrefs \cap SvgRefs

\* processNotes: filter, map, sort by startTime.
ProcessNotes(m, total, flow) ==
  LET items == SelectSeq(flow, IsNoteItem)
      flowNotes == [i \in 1..Len(items) |->
                      [startTick |-> items[i].a0,
                       endTick |-> items[i].a2,
                       hrefs |-> items[i].refs,
                       startTime |-> tickToSeconds(m, total, items[i].a0),
                       endTime |-> tickToSeconds(m, total, items[i].a2),
                       elements |-> getElementsForHrefs(items[i].refs)]]
  IN SortByStartTime(flowNotes)

\* barCache after buildElementCaches and buildBarTimingsCache: an entry for
\* every bar number with a data-bar element or a bar item; startTime is the
\* one of the last timing with that number.
BuildBarCache(svgBars, timings) ==
  LET timed == {timings[i].barNumber : i \in 1..Len(timings)}
      lastOf(b) == CHOOSE i \in 1..Len(timings) :
                     /\ timings[i].barNumber = b
                     /\ \A j \in (i + 1)..Len(timings) : timings[j].barNumber # b
  IN [b \in svgBars \cup timed |->
        [elements |-> IF b \in svgBars THEN {b} ELSE {},
         hasStart |-> b \in timed,
         startTime |-> IF b \in timed THEN timings[lastOf(b)].startTime ELSE 0]]

\* this.barCache.length of the sparse array.
BarCacheLength ==
  IF DOMAIN barCache = {} THEN 0
  ELSE 1 + CHOOSE b \in DOMAIN barCache : \A c \in DOMAIN barCache : c <= b

AllNotes == [i \in 1..Len(notes) |-> i]

\* Position of the end of the audio, on the grid.
AudioEnd == totalDuration * Scale(meta)

-----------------------------------------------------------------------------
(* Operations of Synchronisator, as functions of the current state *)

getVisualTime == audioTime + visualLeadTime

getCurrentBar(currentTime) ==
  GetCurrentBar(barStartTimesCache, barNumbersCache, currentTime)

\* getBarStartTime: this.barCache[barNumber]?.startTime || 0
getBarStartTime(barNumber) ==
  IF barNumber \in DOMAIN barCache /\ barCache[barNumber].hasStart
  THEN barCache[barNumber].startTime
  ELSE 0

snapToBarStart ==
  getBarStartTime(getCurrentBar(getVisualTime)) - visualLeadTime

ElementsOf(idxs) == UNION {notes[idxs[i]].elements : i \in 1..Len(idxs)}

\* showBar without the loop that hides the elements of every bar.
showBarWithoutHiding(barNumber) ==
  IF barNumber = currentVisibleBar
  THEN [bar |-> currentVisibleBar, visible |-> visibleBars, called |-> FALSE]
  ELSE IF barNumber = NoBar
  THEN [bar |-> NoBar, visible |-> visibleBars, called |-> FALSE]
  ELSE [bar |-> barNumber,
        visible |-> visibleBars \cup (IF barNumber \in DOMAIN barCache
                                      THEN barCache[barNumber].elements
                                      ELSE {}),
        called |-> TRUE]

\* showBar: the new currentVisibleBar, the visible bar elements, and whether
\* onBarChange is invoked.
showBar(barNumber) ==
  IF barNumber = currentVisibleBar
  THEN [bar |-> currentVisibleBar, visible |-> visibleBars, called |-> FALSE]
  ELSE IF barNumber = NoBar
  THEN [bar |-> NoBar, visible |-> {}, called |-> FALSE]
  ELSE [bar |-> barNumber,
        visible |-> IF barNumber \in DOMAIN barCache
                    THEN barCache[barNumber].elements ELSE {},
        called |-> TRUE]

\* The while loop of syncLoop with startTime < visualTime as its condition.
RECURSIVE CountReadyStrict(_, _)
CountReadyStrict(rem, visualTime) ==
  IF Len(rem) # 0 /\ notes[rem[1]].startTime < visualTime
  THEN 1 + CountReadyStrict(Tail(rem), visualTime)
  ELSE 0

\* Number of notes the while loop of syncLoop shifts off remainingNotes.
RECURSIVE CountReady(_, _)
CountReady(rem, visualTime) ==
  IF Len(rem) # 0 /\ notes[rem[1]].startTime <= visualTime
  THEN 1 + CountReady(Tail(rem), visualTime)
  ELSE 0

\* syncLoop whose filter drops a note only when endTime < visualTime.
SweepKeepsEnding(visualTime) ==
  LET k == CountReady(remainingNotes, visualTime)
      shifted == SubSeq(remainingNotes, 1, k)
      pushed == activeNotes \o shifted
      ended(i) == notes[i].endTime < visualTime
      kept(i) == ~ended(i)
  IN [remaining |-> SubSeq(remainingNotes, k + 1, Len(remainingNotes)),
      active |-> SelectSeq(pushed, kept),
      highlighted |-> shifted,
      unhighlighted |-> SelectSeq(pushed, ended)]

\* syncLoop keeping in activeNotes only the notes that have elements.
SweepSkipsUnresolved(visualTime) ==
  LET k == CountReady(remainingNotes, visualTime)
      shifted == SubSeq(remainingNotes, 1, k)
      pushed == activeNotes \o shifted
      ended(i) == notes[i].endTime <= visualTime
      kept(i) == ~ended(i) /\ notes[i].elements # {}
  IN [remaining |-> SubSeq(remainingNotes, k + 1, Len(remainingNotes)),
      active |-> SelectSeq(pushed, kept),
      highlighted |-> shifted,
      unhighlighted |-> SelectSeq(pushed, ended)]

\* The two list updates of syncLoop at visualTime.
Sweep(visualTime) ==
  LET k == CountReady(remainingNotes, visualTime)
      shifted == SubSeq(remainingNotes, 1, k)
      pushed == activeNotes \o shifted
      ended(i) == notes[i].endTime <= visualTime
      kept(i) == ~ended(i)
  IN [remaining |-> SubSeq(remainingNotes, k + 1, Len(remainingNotes)),
      active |-> SelectSeq(pushed, kept),
      highlighted |-> shifted,
      unhighlighted |-> SelectSeq(pushed, ended)]

\* updateVisualSync whose first filter keeps the notes starting at targetTime.
PartitionFromTarget(targetTime) ==
  LET later(i) == notes[i].startTime >= targetTime
      sounding(i) == notes[i].startTime <= targetTime
                     /\ notes[i].endTime > targetTime
  IN [remaining |-> SelectSeq(AllNotes, later),
      active |-> SelectSeq(AllNotes, sounding)]

\* The two filters of updateVisualSync.
Partition(targetTime) ==
  LET later(i) == notes[i].startTime > targetTime
      sounding(i) == notes[i].startTime <= targetTime
                     /\ notes[i].endTime > targetTime
  IN [remaining |-> SelectSeq(AllNotes, later),
      active |-> SelectSeq(AllNotes, sounding)]

\* requestAnimationFrame: a handle no pending callback has.
NewHandle(pending) ==
  CHOOSE h \in 1..(Cardinality(pending) + 1) :
    h \notin pending /\ \A g \in 1..(h - 1) : g \in pending

Zeros == [i \in 1..Len(notes) |-> 0]

Bump(count, idxs) ==
  [i \in 1..Len(notes) |->
     LET c == count[i] + Cardinality({j \in 1..Len(idxs) : idxs[j] = i})
     IN IF c > 2 THEN 2 ELSE c]

-----------------------------------------------------------------------------
(* Bodies of the methods: they set engineVars, domVars, frames and the
   observation variables *)

\* syncLoop once isPlaying holds; pending: the callbacks still pending.
SyncLoopBody(pending, op) ==
  LET visualTime == getVisualTime
      sw == Sweep(visualTime)
      currentBar == getCurrentBar(visualTime)
      shown == IF currentBar # currentVisibleBar THEN showBar(currentBar)
               ELSE [bar |-> currentVisibleBar, visible |-> visibleBars,
                     called |-> FALSE]
      handle == NewHandle(pending)
      forward == run \in {"pristine", "forward"}
      off == run = "off"
  IN /\ remainingNotes' = sw.remaining
     /\ activeNotes' = sw.active
     /\ activeEls' = (activeEls \cup ElementsOf(sw.highlighted))
                       \ ElementsOf(sw.unhighlighted)
     /\ currentVisibleBar' = shown.bar
     /\ visibleBars' = shown.visible
     /\ animationId' = handle
     /\ frames' = pending \cup {handle}
     /\ lastOp' = op
     /\ run' = IF off THEN "off" ELSE IF forward THEN "forward" ELSE "other"
     /\ activated' = IF forward THEN Bump(activated, sw.highlighted) ELSE Zeros
     /\ deactivated' = IF forward THEN Bump(deactivated, sw.unhighlighted)
                       ELSE Zeros
     /\ barChange' = IF shown.called THEN shown.bar ELSE NoCall

\* The data model when remainingNotes is this.notes itself, not a copy:
\* shift() in syncLoop takes the note off this.notes too.
DataModelShifted ==
  /\ notes' = IF Len(remainingNotes') < Len(remainingNotes) /\ lastOp' = "sync"
              THEN Tail(notes) ELSE notes
  /\ UNCHANGED <<meta, totalDuration, visualLeadTime, barCache,
                 barStartTimesCache, barNumbersCache, channelColorMap>>

\* The data model after a method of the engine ran: remainingNotes and
\* activeNotes are arrays of their own ([...this.notes], filter), so shift()
\* and push() leave this.notes alone; the bar index and channelColorMap are
\* only read.
DataModelKept == UNCHANGED staticVars

\* Observation of the callbacks of the seek controller.
SeekCalled(c) == seekCall' = IF seekCall = "off" THEN "off" ELSE c

SignalSeen == sinceSignal' = IF sinceSignal = -1 THEN -1 ELSE 0

NoSeekCall == SeekCalled("none") /\ UNCHANGED sinceSignal

NoOp(op) ==
  /\ UNCHANGED <<engineVars, domVars, frames, run, activated, deactivated>>
  /\ lastOp' = op
  /\ barChange' = NoCall

\* start() without its isPlaying guard.
StartBodyUnguarded ==
  /\ isPlaying' = TRUE
  /\ SyncLoopBody(frames, "sync")

StartBody ==
  IF isPlaying THEN NoOp("noop")
  ELSE /\ isPlaying' = TRUE
       /\ SyncLoopBody(frames, "sync")

\* stop() without resetNoteState.
StopBodyKeepsLists ==
  IF ~isPlaying THEN NoOp("noop")
  ELSE /\ isPlaying' = FALSE
       /\ frames' = IF animationId # NoHandle THEN frames \ {animationId}
                    ELSE frames
       /\ animationId' = NoHandle
       /\ activeEls' = {}
       /\ visibleBars' = showBar(NoBar).visible
       /\ UNCHANGED <<remainingNotes, activeNotes>>
       /\ currentVisibleBar' = NoBar
       /\ lastOp' = "stop"
       /\ run' = IF run = "off" THEN "off" ELSE "pristine"
       /\ activated' = Zeros
       /\ deactivated' = Zeros
       /\ barChange' = NoCall

StopBody ==
  IF ~isPlaying THEN NoOp("noop")
  ELSE /\ isPlaying' = FALSE
       /\ frames' = IF animationId # NoHandle THEN frames \ {animationId}
                    ELSE frames
       /\ animationId' = NoHandle
       /\ activeEls' = {}
       /\ visibleBars' = showBar(NoBar).visible
       /\ remainingNotes' = AllNotes
       /\ activeNotes' = <<>>
       /\ currentVisibleBar' = NoBar
       /\ lastOp' = "stop"
       /\ run' = IF run = "off" THEN "off" ELSE "pristine"
       /\ activated' = Zeros
       /\ deactivated' = Zeros
       /\ barChange' = NoCall

\* updateVisualSync without its call of clearAllHighlights.
UpdateVisualSyncBodyKeepsMarkers(targetTime, op) ==
  LET p == Partition(targetTime)
      shown == showBar(getCurrentBar(targetTime))
  IN /\ remainingNotes' = p.remaining
     /\ activeNotes' = p.active
     /\ activeEls' = activeEls \cup ElementsOf(p.active)
     /\ currentVisibleBar' = shown.bar
     /\ visibleBars' = shown.visible
     /\ UNCHANGED <<isPlaying, animationId, frames>>
     /\ lastOp' = op
     /\ run' = IF run = "off" THEN "off" ELSE "other"
     /\ activated' = Zeros
     /\ deactivated' = Zeros
     /\ barChange' = IF shown.called THEN shown.bar ELSE NoCall

\* updateVisualSync(targetTime).
UpdateVisualSyncBody(targetTime, op) ==
  LET p == Partition(targetTime)
      shown == showBar(getCurrentBar(targetTime))
  IN /\ remainingNotes' = p.remaining
     /\ activeNotes' = p.active
     /\ activeEls' = ElementsOf(p.active)
     /\ currentVisibleBar' = shown.bar
     /\ visibleBars' = shown.visible
     /\ UNCHANGED <<isPlaying, animationId, frames>>
     /\ lastOp' = op
     /\ run' = IF run = "off" THEN "off" ELSE "other"
     /\ activated' = Zeros
     /\ deactivated' = Zeros
     /\ barChange' = IF shown.called THEN shown.bar ELSE NoCall

-----------------------------------------------------------------------------
(* The audio element: position changes and the events they queue *)

Clamp(x) == IF x < 0 THEN 0 ELSE IF x > AudioEnd THEN AudioEnd ELSE x

\* audio.currentTime = x, by the user or by the engine: the position moves
\* at once, the 'seeking' event is queued.
SeekTo(x, queue) ==
  /\ audioTime' = Clamp(x)
  /\ audioSeeking' = TRUE
  /\ sigQueue' = Append(queue, "seeking")

\* Observation of a position change to x: a forward run ends when the
\* position moves back.
Moved(x) ==
  LET back == Clamp(x) < audioTime /\ run = "forward"
  IN /\ lastOp' = IF lastOp = "sync" THEN "other" ELSE lastOp
     /\ run' = IF back THEN "other" ELSE run
     /\ activated' = IF back THEN Zeros ELSE activated
     /\ deactivated' = IF back THEN Zeros ELSE deactivated
     /\ UNCHANGED barChange

UserPlay ==
  /\ audioPaused /\ audioTime < AudioEnd /\ Len(sigQueue) < MaxSignals
  /\ audioPaused' = FALSE
  /\ sigQueue' = Append(sigQueue, "play")
  /\ UNCHANGED <<audioTime, audioSeeking>>
  /\ UNCHANGED <<staticVars, hostVars, engineVars, seekVars, domVars, frames,
                 obsVars, scenD, query>>

UserPause ==
  /\ ~audioPaused /\ Len(sigQueue) < MaxSignals
  /\ audioPaused' = TRUE
  /\ sigQueue' = Append(sigQueue, "pause")
  /\ UNCHANGED <<audioTime, audioSeeking>>
  /\ UNCHANGED <<staticVars, hostVars, engineVars, seekVars, domVars, frames,
                 obsVars, scenD, query>>

UserSeek ==
  /\ Len(sigQueue) < MaxSignals
  /\ \E x \in 0..AudioEnd :
       /\ SeekTo(x, sigQueue)
       /\ Moved(x)
       /\ scenD' = IF isPlaying /\ x < audioTime /\ sigQueue = <<>>
                   THEN "sought" ELSE "none"
  /\ UNCHANGED audioPaused
  /\ UNCHANGED <<seekCall, sinceSignal>>
  /\ UNCHANGED <<staticVars, hostVars, engineVars, seekVars, domVars, frames,
                 query>>

SeekCompletes ==
  /\ audioSeeking /\ Len(sigQueue) < MaxSignals
  /\ audioSeeking' = FALSE
  /\ sigQueue' = Append(sigQueue, "seeked")
  /\ UNCHANGED <<audioTime, audioPaused>>
  /\ UNCHANGED <<staticVars, hostVars, engineVars, seekVars, domVars, frames,
                 obsVars, scenD, query>>

AudioAdvance ==
  /\ ~audioPaused /\ ~audioSeeking /\ audioTime < AudioEnd
  /\ audioTime' = audioTime + 1
  /\ Moved(audioTime + 1)
  /\ UNCHANGED <<audioPaused, audioSeeking, sigQueue, scenD>>
  /\ UNCHANGED <<seekCall, sinceSignal>>
  /\ UNCHANGED <<staticVars, hostVars, engineVars, seekVars, domVars, frames,
                 query>>

\* Playback reaches the end: the element pauses itself, then reports 'ended'.
AudioEnds ==
  /\ ~audioPaused /\ ~audioSeeking /\ audioTime = AudioEnd
  /\ Len(sigQueue) < MaxSignals
  /\ audioPaused' = TRUE
  /\ sigQueue' = sigQueue \o <<"pause", "ended">>
  /\ UNCHANGED <<audioTime, audioSeeking>>
  /\ UNCHANGED <<staticVars, hostVars, engineVars, seekVars, domVars, frames,
                 obsVars, scenD, query>>

-----------------------------------------------------------------------------
(* Direct calls of the public methods *)

Start ==
  /\ StartBody
  /\ scenD' = "none"
  /\ NoSeekCall
  /\ UNCHANGED <<hostVars, seekVars, audioVars, query>>
  /\ DataModelKept

Stop ==
  /\ StopBody
  /\ scenD' = "none"
  /\ NoSeekCall
  /\ UNCHANGED <<hostVars, seekVars, audioVars, query>>
  /\ DataModelKept

\* The host resynchronises the engine to the clock.
UpdateVisualSync ==
  /\ UpdateVisualSyncBody(getVisualTime, "resync")
  /\ scenD' = "none"
  /\ NoSeekCall
  /\ UNCHANGED <<hostVars, seekVars, audioVars, query>>
  /\ DataModelKept

\* A pending animation frame callback runs syncLoop.
FrameCallback ==
  /\ \E h \in frames :
       IF isPlaying
       THEN /\ UNCHANGED isPlaying
            /\ SyncLoopBody(frames \ {h}, "sync")
       ELSE /\ frames' = frames \ {h}
            /\ lastOp' = "noop"
            /\ barChange' = NoCall
            /\ UNCHANGED <<engineVars, domVars, run, activated, deactivated>>
  /\ scenD' = IF ~isPlaying THEN "none"
              ELSE IF scenD = "handled" THEN "ticked"
              ELSE IF scenD = "sought" THEN "sought" ELSE "none"
  /\ NoSeekCall
  /\ UNCHANGED <<hostVars, seekVars, audioVars, query>>
  /\ DataModelKept

-----------------------------------------------------------------------------
(* Handlers of initializeAudioEventHandlers *)

\* The event loop dispatches the oldest queued event to its listener.
Signal(name) == listenersOf = sync /\ sigQueue # <<>> /\ Head(sigQueue) = name

HandlePlay ==
  /\ Signal("play")
  /\ sigQueue' = Tail(sigQueue)
  /\ StartBody
  /\ scenD' = "none"
  /\ UNCHANGED <<audioTime, audioPaused, audioSeeking>>
  /\ NoSeekCall
  /\ UNCHANGED <<hostVars, seekVars, query>>
  /\ DataModelKept

HandlePause ==
  /\ Signal("pause")
  /\ sigQueue' = Tail(sigQueue)
  /\ StopBody
  /\ scenD' = "none"
  /\ UNCHANGED <<audioTime, audioPaused, audioSeeking>>
  /\ NoSeekCall
  /\ UNCHANGED <<hostVars, seekVars, query>>
  /\ DataModelKept

HandleEnded ==
  /\ Signal("ended")
  /\ StopBody
  /\ SeekTo(0, Tail(sigQueue))
  /\ scenD' = IF /\ ~userIsSeeking /\ ~programmaticSeek /\ timerId = -1
                 /\ resyncTimers = {} /\ Tail(sigQueue) = <<>>
              THEN "ended" ELSE "none"
  /\ UNCHANGED audioPaused
  /\ NoSeekCall
  /\ UNCHANGED <<hostVars, seekVars, query>>
  /\ DataModelKept

\* The 'seeking' listener setting userIsSeeking whatever programmaticSeek is.
HandleSeekingUnguarded ==
  /\ Signal("seeking")
  /\ sigQueue' = Tail(sigQueue)
  /\ userIsSeeking' = TRUE
  /\ IF BarCacheLength > 0
     THEN UpdateVisualSyncBody(getVisualTime, "resync")
     ELSE NoOp("other")
  /\ scenD' = IF scenD = "sought" THEN "handled"
              ELSE IF scenD = "ended" THEN "endSeeking" ELSE "none"
  /\ UNCHANGED <<audioTime, audioPaused, audioSeeking>>
  /\ UNCHANGED <<programmaticSeek, timerId, sinceCall, lastArgs, resyncTimers>>
  /\ SeekCalled(IF ~programmaticSeek THEN "start" ELSE "none")
  /\ SignalSeen
  /\ UNCHANGED <<hostVars, query>>
  /\ DataModelKept

\* The 'seeking' listener.
HandleSeeking ==
  /\ Signal("seeking")
  /\ sigQueue' = Tail(sigQueue)
  /\ userIsSeeking' = (IF ~programmaticSeek THEN TRUE ELSE userIsSeeking)
  /\ IF BarCacheLength > 0
     THEN UpdateVisualSyncBody(getVisualTime, "resync")
     ELSE NoOp("other")
  /\ scenD' = IF scenD = "sought" THEN "handled"
              ELSE IF scenD = "ended" THEN "endSeeking" ELSE "none"
  /\ UNCHANGED <<audioTime, audioPaused, audioSeeking>>
  /\ UNCHANGED <<programmaticSeek, timerId, sinceCall, lastArgs, resyncTimers>>
  /\ SeekCalled(IF ~programmaticSeek THEN "start" ELSE "none")
  /\ SignalSeen
  /\ UNCHANGED <<hostVars, query>>
  /\ DataModelKept

\* The 'seeked' listener calling debouncedBarSnap() after it cleared
\* programmaticSeek.
HandleSeekedArmsAlways ==
  /\ Signal("seeked")
  /\ sigQueue' = Tail(sigQueue)
  /\ IF programmaticSeek
     THEN /\ programmaticSeek' = FALSE
          /\ lastArgs' = TRUE
          /\ sinceCall' = 0
          /\ timerId' = IF timerId = -1 THEN DebounceWait ELSE timerId
     ELSE /\ lastArgs' = TRUE
          /\ sinceCall' = 0
          /\ timerId' = IF timerId = -1 THEN DebounceWait ELSE timerId
          /\ UNCHANGED programmaticSeek
  /\ NoOp("other")
  /\ scenD' = IF scenD = "endSeeking" THEN "endSettled" ELSE "none"
  /\ UNCHANGED <<userIsSeeking, resyncTimers>>
  /\ UNCHANGED <<audioTime, audioPaused, audioSeeking>>
  /\ SeekCalled("none")
  /\ SignalSeen
  /\ UNCHANGED <<hostVars, query>>
  /\ DataModelKept

\* The 'seeked' listener returning on programmaticSeek without clearing it.
HandleSeekedKeepsFlag ==
  /\ Signal("seeked")
  /\ sigQueue' = Tail(sigQueue)
  /\ IF programmaticSeek
     THEN UNCHANGED <<programmaticSeek, timerId, sinceCall, lastArgs>>
     ELSE /\ lastArgs' = TRUE
          /\ sinceCall' = 0
          /\ timerId' = IF timerId = -1 THEN DebounceWait ELSE timerId
          /\ UNCHANGED programmaticSeek
  /\ NoOp("other")
  /\ scenD' = IF scenD = "endSeeking" THEN "endSettled" ELSE "none"
  /\ UNCHANGED <<userIsSeeking, resyncTimers>>
  /\ UNCHANGED <<audioTime, audioPaused, audioSeeking>>
  /\ SeekCalled("none")
  /\ SignalSeen
  /\ UNCHANGED <<hostVars, query>>
  /\ DataModelKept

\* debounced(): lastArgs and lastCallTime are set; the timer is armed unless
\* one is pending.
HandleSeeked ==
  /\ Signal("seeked")
  /\ sigQueue' = Tail(sigQueue)
  /\ IF programmaticSeek
     THEN /\ programmaticSeek' = FALSE
          /\ UNCHANGED <<timerId, sinceCall, lastArgs>>
     ELSE /\ lastArgs' = TRUE
          /\ sinceCall' = 0
          /\ timerId' = IF timerId = -1 THEN DebounceWait ELSE timerId
          /\ UNCHANGED programmaticSeek
  /\ NoOp("other")
  /\ scenD' = IF scenD = "endSeeking" THEN "endSettled" ELSE "none"
  /\ UNCHANGED <<userIsSeeking, resyncTimers>>
  /\ UNCHANGED <<audioTime, audioPaused, audioSeeking>>
  /\ SeekCalled("none")
  /\ SignalSeen
  /\ UNCHANGED <<hostVars, query>>
  /\ DataModelKept

-----------------------------------------------------------------------------
(* Timers *)

\* The function passed to debounce, seeking to the bar start whatever the
\* distance.
BarSnapAlways ==
  IF programmaticSeek \/ ~userIsSeeking
  THEN /\ NoOp("other")
       /\ SeekCalled("none")
       /\ UNCHANGED <<userIsSeeking, programmaticSeek, resyncTimers, audioVars>>
  ELSE LET currentAudioTime == audioTime
           barStartTime == snapToBarStart
       IN /\ userIsSeeking' = FALSE
          /\ SeekCalled("end")
          /\ UNCHANGED <<engineVars, domVars, frames, audioPaused>>
          /\ IF TRUE
             THEN /\ programmaticSeek' = TRUE
                  /\ SeekTo(barStartTime, sigQueue)
                  /\ Moved(barStartTime)
                  /\ resyncTimers' = resyncTimers \cup
                       {[due |-> ResyncDelay, target |-> barStartTime]}
             ELSE /\ lastOp' = "other"
                  /\ UNCHANGED <<programmaticSeek, resyncTimers, audioTime,
                                 audioSeeking, sigQueue, run, activated,
                                 deactivated, barChange>>

\* The function passed to debounce.
BarSnap ==
  IF programmaticSeek \/ ~userIsSeeking
  THEN /\ NoOp("other")
       /\ SeekCalled("none")
       /\ UNCHANGED <<userIsSeeking, programmaticSeek, resyncTimers, audioVars>>
  ELSE LET currentAudioTime == audioTime
           barStartTime == snapToBarStart
       IN /\ userIsSeeking' = FALSE
          /\ SeekCalled("end")
          /\ UNCHANGED <<engineVars, domVars, frames, audioPaused>>
          /\ IF 10 * Abs(currentAudioTime - barStartTime)
                  > SnapThresholdTenths * Scale(meta)
             THEN /\ programmaticSeek' = TRUE
                  /\ SeekTo(barStartTime, sigQueue)
                  /\ Moved(barStartTime)
                  /\ resyncTimers' = resyncTimers \cup
                       {[due |-> ResyncDelay, target |-> barStartTime]}
             ELSE /\ lastOp' = "other"
                  /\ UNCHANGED <<programmaticSeek, resyncTimers, audioTime,
                                 audioSeeking, sigQueue, run, activated,
                                 deactivated, barChange>>

\* timerExpired of debounce, then trailingEdge and invokeFunc.
TimerExpired ==
  /\ timerId = 0
  /\ IF sinceCall >= DebounceWait
     THEN /\ timerId' = -1
          /\ lastArgs' = FALSE
          /\ IF lastArgs
             THEN BarSnap
             ELSE /\ NoOp("other")
                  /\ SeekCalled("none")
                  /\ UNCHANGED <<userIsSeeking, programmaticSeek,
                                 resyncTimers, audioVars>>
     ELSE /\ timerId' = DebounceWait - sinceCall
          /\ NoOp("other")
          /\ SeekCalled("none")
          /\ UNCHANGED <<lastArgs, userIsSeeking, programmaticSeek,
                         resyncTimers, audioVars>>
  /\ scenD' = "none"
  /\ UNCHANGED <<sinceCall, sinceSignal, hostVars, query>>
  /\ DataModelKept

\* setTimeout(() => this.updateVisualSync(barStartTime), 50)
ResyncExpired ==
  /\ \E r \in resyncTimers :
       /\ r.due = 0
       /\ resyncTimers' = resyncTimers \ {r}
       /\ UpdateVisualSyncBody(r.target, "resync")
       /\ scenD' = "none"
  /\ UNCHANGED <<userIsSeeking, programmaticSeek, timerId, sinceCall, lastArgs>>
  /\ NoSeekCall
  /\ UNCHANGED <<hostVars, audioVars, query>>
  /\ DataModelKept

\* A quantum of wall-clock time passes; a due timer runs first.
Elapse ==
  /\ timerId # 0
  /\ \A r \in resyncTimers : r.due # 0
  /\ timerId > 0 \/ resyncTimers # {}
  /\ timerId' = IF timerId > 0 THEN timerId - 1 ELSE timerId
  /\ sinceCall' = IF timerId > 0 /\ sinceCall < DebounceWait
                  THEN sinceCall + 1 ELSE sinceCall
  /\ resyncTimers' = {[r EXCEPT !.due = r.due - 1] : r \in resyncTimers}
  /\ UNCHANGED <<userIsSeeking, programmaticSeek, lastArgs>>
  /\ sinceSignal' = IF sinceSignal = -1 \/ sinceSignal >= DebounceWait
                    THEN sinceSignal ELSE sinceSignal + 1
  /\ UNCHANGED <<lastOp, run, activated, deactivated, barChange, seekCall>>
  /\ UNCHANGED <<staticVars, hostVars, engineVars, domVars, audioVars, frames,
                 scenD, query>>

-----------------------------------------------------------------------------
(* The engine after construction and initializeAudioEventHandlers *)

NoQuery == [done |-> 0, t1 |-> 0, r1 |-> NoBar, t2 |-> 0, r2 |-> NoBar]

\* The state after new Synchronisator(...) and initializeAudioEventHandlers():
\* the SVG holds a rect for every bar number of the flow; the audio is paused
\* at 0; meta.channels is absent, so channelColorMap stays the empty Map of
\* the constructor.  observe: the initial value of run; watch: whether
\* seekCall and sinceSignal are observed.
ConstructedObserving(m, total, lead, flow, observe, watch) ==
  LET timings == BarTimings(m, total, flow)
      svgBars == {timings[i].barNumber : i \in 1..Len(timings)}
  IN /\ meta = m
     /\ totalDuration = total
     /\ visualLeadTime = lead
     /\ notes = ProcessNotes(m, total, flow)
     /\ barCache = BuildBarCache(svgBars, timings)
     /\ barStartTimesCache = BarStartTimesOf(timings)
     /\ barNumbersCache = BarNumbersOf(timings)
     /\ channelColorMap = <<>>
     /\ isPlaying = FALSE
     /\ currentVisibleBar = NoBar
     /\ animationId = NoHandle
     /\ remainingNotes = AllNotes
     /\ activeNotes = <<>>
     /\ userIsSeeking = FALSE
     /\ programmaticSeek = FALSE
     /\ timerId = -1
     /\ sinceCall = 0
     /\ lastArgs = FALSE
     /\ resyncTimers = {}
     /\ activeEls = {}
     /\ visibleBars = {}
     /\ audioTime = 0
     /\ audioPaused = TRUE
     /\ audioSeeking = FALSE
     /\ sigQueue = <<>>
     /\ frames = {}
     /\ lastOp = "other"
     /\ run = observe
     /\ activated = Zeros
     /\ deactivated = Zeros
     /\ barChange = NoCall
     /\ seekCall = (IF watch THEN "none" ELSE "off")
     /\ sinceSignal = (IF watch THEN DebounceWait ELSE -1)
     /\ listening = TRUE
     /\ listenersOf = 1
     /\ sync = 1
     /\ discardedDriven = FALSE
     /\ menu = [currentWorkId |-> 1, isNavigating |-> FALSE, url |-> 1,
                loading |-> 0, pushToHistory |-> FALSE, before |-> 1,
                outcome |-> "none"]
     /\ scenD = "none"
     /\ query = NoQuery

\* The same state with the callbacks of the seek controller not observed.
Constructed(m, total, lead, flow, observe) ==
  ConstructedObserving(m, total, lead, flow, observe, FALSE)

-----------------------------------------------------------------------------
(* Specification of the engine with its seek controller *)

EngineMeta == [minTick |-> 0, maxTick |-> 3, musicStartSeconds |-> 0]

\* Scores: two overlapping notes on one element with two bars; two notes
\* and no bar; an unresolved href with a pickup bar numbered 0.
EngineFlows ==
  {<<NoteItem(0, 2, "h1"), NoteItem(1, 3, "h1"), BarItem(1, 1), BarItem(2, 2)>>,
   <<NoteItem(0, 1, "h1"), NoteItem(2, 3, "h2")>>,
   <<NoteItem(0, 2, "hx"), NoteItem(1, 2, "h2"), BarItem(0, 0), BarItem(2, 1)>>}

Init ==
  \E flow \in EngineFlows, lead \in Leads :
    Constructed(EngineMeta, 1, lead, flow, "off")

Next ==
  \/ UserPlay \/ UserPause \/ UserSeek \/ SeekCompletes
  \/ AudioAdvance \/ AudioEnds
  \/ Start \/ Stop \/ UpdateVisualSync \/ FrameCallback
  \/ HandlePlay \/ HandlePause \/ HandleEnded \/ HandleSeeking \/ HandleSeeked
  \/ TimerExpired \/ ResyncExpired \/ Elapse

Spec == Init /\ [][Next]_vars

-----------------------------------------------------------------------------
(* Claims about the engine *)

\* The notes n with n.startTime <= t < n.endTime.
Sounding(t) ==
  {i \in 1..Len(notes) : notes[i].startTime <= t /\ t < notes[i].endTime}

NoDuplicates(s) == Cardinality(Range(s)) = Len(s)

\* C1: right after a scheduling tick (syncLoop) at visual time t = audio
\* position + lead time, the active list is exactly the set of notes n with
\* n.startTime <= t < n.endTime.
C1_ActiveAfterTick ==
  lastOp = "sync" => Range(activeNotes) = Sounding(getVisualTime)

\* C2: after a backward user seek while Playing, once its seeking signal has
\* been handled and one further tick has run, the active notes and the
\* elements marked active are those a fresh updateVisualSync at the tick's
\* visual time produces.
C2_SeekBackThenTick ==
  (scenD = "ticked" /\ lastOp = "sync") =>
     /\ Range(activeNotes) = Range(Partition(getVisualTime).active)
     /\ activeEls = ElementsOf(Partition(getVisualTime).active)

\* C4: in every reachable state remaining and active are disjoint, neither
\* holds a note twice, and both hold only notes of the note list; every note
\* is thus in exactly one of remaining, active, ended.
C4_ExactlyOneList ==
  /\ Range(remainingNotes) \cap Range(activeNotes) = {}
  /\ NoDuplicates(remainingNotes)
  /\ NoDuplicates(activeNotes)
  /\ Range(remainingNotes) \cup Range(activeNotes) \subseteq 1..Len(notes)

\* A seek left one note active and one ended.
C4_Witness ==
  /\ userIsSeeking
  /\ Len(activeNotes) = 1
  /\ remainingNotes = <<>>
  /\ Len(notes) = 2

\* C8: between steps the engine has exactly one pending frame callback (the
\* stored handle) while Playing and none while Stopped; start() while Playing
\* and stop() while Stopped change nothing.
C8_FramesInv ==
  /\ isPlaying => frames = {animationId} /\ animationId # NoHandle
  /\ ~isPlaying => frames = {}

-----------------------------------------------------------------------------
(* Specification of playback runs: play, pause and frames over every note
   list of the bounds, the position only moving forward *)

RunMeta == [minTick |-> 0, maxTick |-> MaxTick, musicStartSeconds |-> 0]

InitRun ==
  \E flow \in SeqsUpTo(NoteItems, MaxNotes), lead \in Leads :
    Constructed(RunMeta, 1, lead, flow, "pristine")

NextRun ==
  \/ UserPlay \/ UserPause \/ AudioAdvance
  \/ HandlePlay \/ HandlePause
  \/ Start \/ Stop \/ FrameCallback

SpecRun == InitRun /\ [][NextRun]_vars

\* C3: in a run from the pristine state whose ticks ran at non-decreasing
\* visual times, the last at t, the active set and the remaining set are the
\* ones a direct updateVisualSync(t) produces.
C3_SweepIsPartition ==
  (run = "forward" /\ lastOp = "sync") =>
     /\ Range(activeNotes) = Range(Partition(getVisualTime).active)
     /\ Range(remainingNotes) = Range(Partition(getVisualTime).remaining)

\* Two ticks have run; one note has ended, one sounds, none remains.
C3_Witness ==
  /\ run = "forward" /\ lastOp = "sync"
  /\ Len(notes) = 2 /\ Len(activeNotes) = 1 /\ remainingNotes = <<>>
  /\ \E i \in 1..Len(notes) : deactivated[i] = 1
  /\ audioTime >= 2

\* C10: in a playback run every note is activated at most once and
\* deactivated at most once, never deactivated before it is activated, and
\* after a tick at a visual time at or past both ends of its window it has
\* been activated and deactivated exactly once.
C10_OncePerRun ==
  run \in {"pristine", "forward"} =>
    \A i \in 1..Len(notes) :
      /\ activated[i] <= 1
      /\ deactivated[i] <= activated[i]
      /\ (/\ lastOp = "sync"
          /\ notes[i].startTime <= getVisualTime
          /\ notes[i].endTime <= getVisualTime)
           => (activated[i] = 1 /\ deactivated[i] = 1)

\* A note was activated by one tick and deactivated by a later one.
C10_Witness ==
  /\ run = "forward" /\ lastOp = "sync"
  /\ \E i \in 1..Len(notes) :
       /\ deactivated[i] = 1
       /\ notes[i].startTime < notes[i].endTime
       /\ notes[i].endTime = getVisualTime
       /\ notes[i].elements # {}
  /\ \E j \in 1..Len(notes) : activated[j] = 1 /\ deactivated[j] = 0

-----------------------------------------------------------------------------
(* Specification of the bar index: getCurrentBar queried on every bar index
   of the bounds *)

BarMetas ==
  {[minTick |-> 0, maxTick |-> MaxTick, musicStartSeconds |-> 0],
   [minTick |-> 0, maxTick |-> 0, musicStartSeconds |-> 0]}

InitBar ==
  \E flow \in SeqsUpTo(BarItems, MaxBars), m \in BarMetas :
    Constructed(m, 1, 0, flow, "off")

\* getCurrentBar(t); query keeps this call and the one before it.
QueryBar ==
  /\ \E t \in -1..(MaxTick + 1) :
       query' = [done |-> IF query.done < 2 THEN query.done + 1 ELSE 2,
                 t1 |-> query.t2, r1 |-> query.r2,
                 t2 |-> t, r2 |-> getCurrentBar(t)]
  /\ UNCHANGED <<staticVars, hostVars, engineVars, seekVars, domVars, audioVars,
                 frames, obsVars, scenD>>

NextBar == QueryBar

SpecBar == InitBar /\ [][NextBar]_vars

\* Index in start-time order of the last bar starting at or before t.
LastAtOrBefore(t) ==
  CHOOSE i \in 1..Len(barStartTimesCache) :
    /\ barStartTimesCache[i] <= t
    /\ \A j \in (i + 1)..Len(barStartTimesCache) : barStartTimesCache[j] > t

NonDecreasing(s) == \A i \in 1..(Len(s) - 1) : s[i] <= s[i + 1]

\* C5: for t at or after the first bar's start time getCurrentBar(t) is the
\* bar number of the last entry, in start-time order, whose startTime <= t;
\* a bar is returned at the very time it starts.
C5_LastStartedBar ==
  (/\ query.done >= 1
   /\ Len(barStartTimesCache) > 0
   /\ query.t2 >= barStartTimesCache[1])
    => query.r2 = barNumbersCache[LastAtOrBefore(query.t2)]

\* C6: getCurrentBar(t) is -1 for every t strictly before the first bar's
\* start time, and for every t when the score has no bar event.
C6_NoBarYet ==
  (/\ query.done >= 1
   /\ \/ Len(barStartTimesCache) = 0
      \/ query.t2 < barStartTimesCache[1])
    => query.r2 = NoBar

\* A query before the first of two bars, after a query without answer -1.
C6_Witness ==
  /\ query.done = 2 /\ Len(barStartTimesCache) = 2
  /\ query.t2 < barStartTimesCache[1] /\ query.r2 = NoBar
  /\ query.r1 # NoBar

\* C7 as stated: for every bar index and all t1 <= t2,
\* getCurrentBar(t1) <= getCurrentBar(t2).
C7_Monotone ==
  (query.done = 2 /\ query.t1 <= query.t2) => query.r1 <= query.r2

\* C7, amended: when the bar numbers are non-negative and non-decreasing in
\* start-time order, getCurrentBar(t1) <= getCurrentBar(t2) for all t1 <= t2.
C7_MonotoneOnAscendingBars ==
  (/\ query.done = 2 /\ query.t1 <= query.t2
   /\ NonDecreasing(barNumbersCache)
   /\ \A i \in 1..Len(barNumbersCache) : barNumbersCache[i] >= 0)
    => query.r1 <= query.r2

\* Two queries in two different bars of an ascending three-bar index.
C7_Witness ==
  /\ query.done = 2 /\ query.t1 < query.t2
  /\ Len(barNumbersCache) = 3 /\ NonDecreasing(barNumbersCache)
  /\ NoBar < query.r1 /\ query.r1 < query.r2

-----------------------------------------------------------------------------
(* Claims about the bar-change callback *)

\* The call a step computing bar b owes: onBarChange(b) when b differs from
\* the bar shown before the step, none otherwise.
ExpectedCall(b) == IF b # currentVisibleBar THEN b ELSE NoCall

\* A scheduling tick: syncLoop run by a frame callback or by start().
TickStep ==
  \/ FrameCallback /\ isPlaying
  \/ (Start \/ HandlePlay) /\ ~isPlaying

\* updateVisualSync at the current visual time.
ResyncStep ==
  \/ UpdateVisualSync
  \/ HandleSeeking /\ BarCacheLength > 0

\* C11: every scheduling tick and every updateVisualSync whose computed bar
\* differs from the bar shown before it invokes the bar-change callback
\* exactly once, with the computed bar; a step whose computed bar is the one
\* shown invokes it not at all.
C11_BarChangeOnce ==
  [][/\ (TickStep \/ ResyncStep)
          => barChange' = ExpectedCall(getCurrentBar(getVisualTime))
     /\ ResyncExpired
          => \E r \in resyncTimers :
               /\ r.due = 0
               /\ barChange' = ExpectedCall(getCurrentBar(r.target))]_vars

-----------------------------------------------------------------------------
(* Claims about updateVisualSync *)

\* What a call updateVisualSync(t) leaves behind.
Established(t) ==
  /\ Range(remainingNotes') = {i \in 1..Len(notes) : notes[i].startTime > t}
  /\ Range(activeNotes') = Sounding(t)
  /\ NoDuplicates(remainingNotes') /\ NoDuplicates(activeNotes')
  /\ activeEls' = UNION {notes[i].elements : i \in Sounding(t)}
  /\ currentVisibleBar' = getCurrentBar(t)

-----------------------------------------------------------------------------
(* Claims about the data model *)

\* C30: no runtime operation (start, stop, scheduling tick, updateVisualSync,
\* seek handling) modifies the note list, a note's startTime or endTime, the
\* bar index arrays or the channel-colour map; of the data model only
\* remainingNotes, activeNotes and currentVisibleBar change after
\* construction.
C30_DataModelImmutable ==
  [][UNCHANGED <<meta, notes, barCache, barStartTimesCache, barNumbersCache,
                 channelColorMap>>]_vars

\* A scheduling tick has shifted a note to activeNotes and shown a bar.
C30_Witness ==
  /\ lastOp = "sync"
  /\ Len(remainingNotes) < Len(notes)
  /\ activeNotes # <<>>
  /\ currentVisibleBar # NoBar

-----------------------------------------------------------------------------
(* Specification of the seek controller: the engine with the callbacks of
   the seek controller observed, and its teardown *)

\* cleanup(): the listeners are removed; neither the debounce timer nor a
\* pending setTimeout is cancelled.
Cleanup ==
  /\ listening
  /\ listening' = FALSE
  /\ listenersOf' = IF listenersOf = sync THEN 0 ELSE listenersOf
  /\ UNCHANGED <<sync, discardedDriven, menu>>
  /\ UNCHANGED <<staticVars, engineVars, seekVars, domVars, audioVars, frames,
                 obsVars, scenD, query>>

\* A media event is dispatched after cleanup(): no listener receives it.
DropSignal ==
  /\ listenersOf = 0 /\ sigQueue # <<>>
  /\ sigQueue' = Tail(sigQueue)
  /\ UNCHANGED <<audioTime, audioPaused, audioSeeking>>
  /\ UNCHANGED <<staticVars, hostVars, engineVars, seekVars, domVars, frames,
                 obsVars, scenD, query>>

SeekLeads == {0, 1}

InitSeek ==
  \E flow \in EngineFlows, lead \in SeekLeads :
    ConstructedObserving(EngineMeta, 1, lead, flow, "off", TRUE)

\* The audio element, the handlers and the timers; the host calls cleanup()
\* and none of start(), stop(), updateVisualSync().
NextSeek ==
  \/ UserPlay \/ UserPause \/ UserSeek \/ SeekCompletes
  \/ AudioAdvance \/ AudioEnds
  \/ FrameCallback
  \/ HandlePlay \/ HandlePause \/ HandleEnded \/ HandleSeeking \/ HandleSeeked
  \/ TimerExpired \/ ResyncExpired \/ Elapse
  \/ Cleanup \/ DropSignal

SpecSeek == InitSeek /\ [][NextSeek]_vars

\* C21: every 'seeking' event handled while programmaticSeek is not set
\* sets userIsSeeking, invokes onSeekStart and, in the same step, repartitions
\* the notes with updateVisualSync at the current visual time, for every
\* score (one without bar records included), Playing or Stopped.
C21_SeekStartResyncs ==
  [][(HandleSeeking /\ ~programmaticSeek)
       => /\ userIsSeeking'
          /\ seekCall' = "start"
          /\ Established(getVisualTime)]_vars

\* C22: a 'seeked' event handled while programmaticSeek is set only clears
\* the flag: the debounced snap is not armed, onSeekEnd is not invoked, the
\* audio position does not move, and the controller is Idle afterwards.
C22_ProgrammaticSeekedOnlyClears ==
  [][(HandleSeeked /\ programmaticSeek)
       => /\ ~programmaticSeek' /\ ~userIsSeeking'
          /\ UNCHANGED <<timerId, sinceCall, lastArgs, resyncTimers>>
          /\ seekCall' = "none"
          /\ UNCHANGED audioTime]_vars

\* The 'seeked' event of a corrective seek has just been handled: the flag
\* is clear while the resync the snap scheduled is still pending.
C22_Witness ==
  /\ ~programmaticSeek /\ ~userIsSeeking
  /\ resyncTimers # {}
  /\ sinceSignal = 0 /\ seekCall = "none"
  /\ timerId = -1

\* The debounced function runs past its guard: onSeekEnd is invoked.
SnapFires == TimerExpired /\ seekCall' = "end"

\* C23: the debounced snap fires only after a full quiet period
\* (DebounceWait) in which no seek signal, 'seeking' or 'seeked', was
\* handled; so a burst of seeks whose signals are less than the quiet period
\* apart ends in at most one onSeekEnd and bar snap, after its last signal.
C23_SnapAfterQuietPeriod ==
  [][SnapFires => sinceSignal >= DebounceWait]_vars

\* The bar-aligned target of the snap is more than 0.1 s away from the
\* audio position.
FarFromBarStart ==
  10 * Abs(audioTime - snapToBarStart) > SnapThresholdTenths * Scale(meta)

\* C24: when the debounced snap fires in UserSeeking, programmaticSeek is
\* set and the audio position moved only if the bar-aligned target is more
\* than 0.1 s away from the audio position; otherwise both are left
\* unchanged; in both cases userIsSeeking is cleared and onSeekEnd invoked
\* once, and the controller is Idle when nothing was moved.
C24_SnapThreshold ==
  [][SnapFires
       => /\ ~userIsSeeking'
          /\ seekCall' = "end"
          /\ IF FarFromBarStart
             THEN programmaticSeek' /\ audioTime' = Clamp(snapToBarStart)
             ELSE ~programmaticSeek' /\ UNCHANGED <<audioTime, programmaticSeek>>
          /\ (programmaticSeek' \/ audioTime' # audioTime) => FarFromBarStart]_vars

\* The snap has fired on a bar start: onSeekEnd was invoked, the controller
\* is Idle and no corrective seek was made.
C24_Witness ==
  /\ seekCall = "end" /\ lastOp = "other"
  /\ ~userIsSeeking /\ ~programmaticSeek
  /\ resyncTimers = {} /\ timerId = -1
  /\ ~audioSeeking /\ sigQueue = <<>>
  /\ audioTime > 0

\* C26: after cleanup() neither the seek-debounce timer nor the deferred
\* resync fires: no onSeekEnd, no change of the audio position by the engine
\* and no updateVisualSync, whatever timers were pending at teardown.
C26_NoTimerAfterCleanup ==
  [][~listening
       => /\ ~(TimerExpired /\ (seekCall' = "end" \/ audioTime' # audioTime))
          /\ ~ResyncExpired]_vars

-----------------------------------------------------------------------------
(* Specification of the bar snap: snapToBarStart at every audio position, on
   every list of bar events of the bounds *)

InitSnap ==
  \E flow \in SeqsUpTo(BarItems, MaxBars), lead \in SeekLeads :
    Constructed(RunMeta, 1, lead, flow, "off")

\* snapToBarStart() with the audio at position x; query keeps the position
\* and the result.
QuerySnap ==
  /\ query.done = 0
  /\ UNCHANGED <<audioPaused, audioSeeking, sigQueue>>
  /\ UNCHANGED <<staticVars, hostVars, engineVars, seekVars, domVars, frames,
                 obsVars, scenD>>
  /\ \E x \in 0..AudioEnd :
       /\ audioTime' = x
       /\ query' = [done |-> 1, t1 |-> NoQuery.t1, r1 |-> NoQuery.r1,
                    t2 |-> x, r2 |-> snapToBarStart']

NextSnap == QuerySnap

SpecSnap == InitSnap /\ [][NextSnap]_vars

\* C25: with the lead-adjusted position p = audio position + lead at or
\* after the first bar's start, snapToBarStart computes s - lead, s being
\* the greatest bar start time <= p, for every score, one in which a bar
\* number occurs at several start times included.
C25_SnapsToContainingBar ==
  LET p == query.t2 + visualLeadTime
  IN (/\ query.done = 1
      /\ barStartTimesCache # <<>>
      /\ barStartTimesCache[1] <= p)
       => query.r2 = barStartTimesCache[LastAtOrBefore(p)] - visualLeadTime

-----------------------------------------------------------------------------
(* Specification of the tick calibration: tickToSeconds queried on every
   timing meta and total duration of the bounds *)

MaxSeconds == 2

TickMetas ==
  {[minTick |-> lo, maxTick |-> hi, musicStartSeconds |-> st] :
     lo \in 0..1, hi \in 0..MaxTick, st \in 0..MaxSeconds}

InitTick ==
  \E m \in TickMetas, total \in 0..MaxSeconds :
    Constructed(m, total, 0, <<>>, "off")

\* tickToSeconds(tick); query keeps this call and the one before it.
QueryTick ==
  /\ \E tick \in -1..(MaxTick + 1) :
       query' = [done |-> IF query.done < 2 THEN query.done + 1 ELSE 2,
                 t1 |-> query.t2, r1 |-> query.r2,
                 t2 |-> tick, r2 |-> tickToSeconds(meta, totalDuration, tick)]
  /\ UNCHANGED <<staticVars, hostVars, engineVars, seekVars, domVars, audioVars,
                 frames, obsVars, scenD>>

NextTick == QueryTick

SpecTick == InitTick /\ [][NextTick]_vars

InTickRange(tick) == meta.minTick <= tick /\ tick <= meta.maxTick

\* C12 as stated: for every meta and configuration and all ticks a <= b of
\* [minTick, maxTick], tickToSeconds(a) <= tickToSeconds(b).
C12_Monotone ==
  (/\ query.done = 2
   /\ InTickRange(query.t1) /\ InTickRange(query.t2)
   /\ query.t1 <= query.t2)
    => query.r1 <= query.r2

\* C12, amended: when totalDurationSeconds >= musicStartSeconds, for all
\* ticks a <= b of [minTick, maxTick], tickToSeconds(a) <= tickToSeconds(b).
C12_MonotoneOnPositiveDuration ==
  (/\ query.done = 2
   /\ InTickRange(query.t1) /\ InTickRange(query.t2)
   /\ query.t1 <= query.t2
   /\ totalDuration >= meta.musicStartSeconds)
    => query.r1 <= query.r2

\* Two ticks inside the range of a score with silence before the music,
\* mapped to two different times.
C12_Witness ==
  /\ query.done = 2
  /\ meta.minTick < query.t1 /\ query.t1 < query.t2 /\ query.t2 < meta.maxTick
  /\ meta.musicStartSeconds > 0
  /\ query.r1 < query.r2

\* The reference map of the calibration as a fraction num / den of a second:
\* musicStartSeconds when maxTick = minTick, otherwise
\* (tick - minTick) / (maxTick - minTick) * (totalDuration - musicStartSeconds)
\* + musicStartSeconds.
ReferenceSeconds(tick) ==
  IF meta.maxTick = meta.minTick
  THEN [num |-> meta.musicStartSeconds, den |-> 1]
  ELSE [num |-> (tick - meta.minTick) * (totalDuration - meta.musicStartSeconds)
                  + meta.musicStartSeconds * (meta.maxTick - meta.minTick),
        den |-> meta.maxTick - meta.minTick]

\* v, in units of 1 / Scale(meta) second, is the fraction f.
EqualsFraction(v, f) == v * f.den = f.num * Scale(meta)

\* C13 as stated: tickToSeconds(tick) is the reference map for every tick;
\* tickToSeconds(minTick) = musicStartSeconds and tickToSeconds(maxTick) =
\* totalDuration.
C13_ReferenceMap ==
  query.done >= 1 =>
    /\ EqualsFraction(query.r2, ReferenceSeconds(query.t2))
    /\ query.t2 = meta.minTick
         => query.r2 = meta.musicStartSeconds * Scale(meta)
    /\ query.t2 = meta.maxTick
         => query.r2 = totalDuration * Scale(meta)

\* C13, amended: tickToSeconds(tick) is the reference map for every tick;
\* tickToSeconds(minTick) = musicStartSeconds; tickToSeconds(maxTick) =
\* totalDuration when maxTick # minTick, and musicStartSeconds otherwise.
C13_ReferenceMapNonDegenerateEnd ==
  query.done >= 1 =>
    /\ EqualsFraction(query.r2, ReferenceSeconds(query.t2))
    /\ query.t2 = meta.minTick
         => query.r2 = meta.musicStartSeconds * Scale(meta)
    /\ query.t2 = meta.maxTick
         => query.r2 = IF meta.maxTick # meta.minTick
                       THEN totalDuration * Scale(meta)
                       ELSE meta.musicStartSeconds * Scale(meta)

\* tickToSeconds(maxTick) of a degenerate score whose total duration is not
\* its music start.
C13_Witness ==
  /\ query.done >= 1
  /\ meta.maxTick = meta.minTick /\ query.t2 = meta.maxTick
  /\ meta.musicStartSeconds > 0
  /\ totalDuration > meta.musicStartSeconds
  /\ query.r2 = meta.musicStartSeconds

-----------------------------------------------------------------------------
(* createChannelColorMapping of js/channel2colour.js *)

Channels == {0, 1, 2}

Pitches == {0, 1, 2}

ColourNote(channel, pitch) == [channel |-> channel, pitch |-> pitch]

NoteData ==
  SeqsUpTo({ColourNote(c, p) : c \in Channels, p \in Pitches}, MaxData)

\* channelStats after noteData.forEach: the keys in insertion order (order
\* of first occurrence) and the statistics of every key.
RECURSIVE ChannelKeys(_)
ChannelKeys(noteData) ==
  IF noteData = <<>> THEN <<>>
  ELSE LET front == SubSeq(noteData, 1, Len(noteData) - 1)
           keys == ChannelKeys(front)
           channel == noteData[Len(noteData)].channel
       IN IF channel \in Range(keys) THEN keys ELSE Append(keys, channel)

Least(a, b) == IF a < b THEN a ELSE b

Greatest(a, b) == IF a > b THEN a ELSE b

RECURSIVE ChannelStats(_)
ChannelStats(noteData) ==
  IF noteData = <<>> THEN <<>>
  ELSE LET front == SubSeq(noteData, 1, Len(noteData) - 1)
           stats == ChannelStats(front)
           note == noteData[Len(noteData)]
       IN IF note.channel \in DOMAIN stats
          THEN [stats EXCEPT ![note.channel] =
                  [count |-> @.count + 1,
                   min |-> Least(@.min, note.pitch),
                   max |-> Greatest(@.max, note.pitch)]]
          ELSE [c \in DOMAIN stats \cup {note.channel} |->
                  IF c = note.channel
                  THEN [count |-> 1, min |-> note.pitch, max |-> note.pitch]
                  ELSE stats[c]]

\* channelsWithAvgPitch before the sort; avgPitch is kept doubled,
\* min + max, which orders the channels as (min + max) / 2 does.
ChannelsWithAvgPitch(noteData) ==
  LET keys == ChannelKeys(noteData)
      stats == ChannelStats(noteData)
  IN [i \in 1..Len(keys) |->
        [channel |-> keys[i],
         avgPitch |-> stats[keys[i]].min + stats[keys[i]].max]]

RECURSIVE InsertByAvgPitch(_, _)
InsertByAvgPitch(x, s) ==
  IF s = <<>> THEN <<x>>
  ELSE IF x.avgPitch > Head(s).avgPitch THEN <<x>> \o s
       ELSE <<Head(s)>> \o InsertByAvgPitch(x, Tail(s))

\* Array.prototype.sort((a, b) => b.avgPitch - a.avgPitch): stable,
\* descending by avgPitch.
RECURSIVE SortByAvgPitch(_)
SortByAvgPitch(s) ==
  IF s = <<>> THEN <<>>
  ELSE InsertByAvgPitch(s[Len(s)], SortByAvgPitch(SubSeq(s, 1, Len(s) - 1)))

\* createChannelColorMapping with the lowest channel first in the order.
createChannelColorMappingAscending(noteData, paletteLength) ==
  LET sorted == SortByAvgPitch(ChannelsWithAvgPitch(noteData))
      n == Len(sorted)
      index(i) == IF i = n THEN 0
                  ELSE IF i = 1 THEN 1
                  ELSE Least(i, paletteLength - 1)
  IN [c \in {sorted[i].channel : i \in 1..n} |->
        index(CHOOSE i \in 1..n : sorted[i].channel = c)]

\* createChannelColorMapping without Math.min(colorIndex, voiceColors.length
\* - 1).
createChannelColorMappingUnclamped(noteData, paletteLength) ==
  LET sorted == SortByAvgPitch(ChannelsWithAvgPitch(noteData))
      n == Len(sorted)
      index(i) == IF i = 1 THEN 0
                  ELSE IF i = n THEN 1
                  ELSE i
  IN [c \in {sorted[i].channel : i \in 1..n} |->
        index(CHOOSE i \in 1..n : sorted[i].channel = c)]

\* createChannelColorMapping(noteData), voiceColors holding paletteLength
\* entries: the Map as a function channel -> colour index.
createChannelColorMapping(noteData, paletteLength) ==
  LET sorted == SortByAvgPitch(ChannelsWithAvgPitch(noteData))
      n == Len(sorted)
      index(i) == IF i = 1 THEN 0
                  ELSE IF i = n THEN 1
                  ELSE Least(i, paletteLength - 1)
  IN [c \in {sorted[i].channel : i \in 1..n} |->
        index(CHOOSE i \in 1..n : sorted[i].channel = c)]

-----------------------------------------------------------------------------
(* Specification of the channel colours: createChannelColorMapping called on
   every note data and palette of the bounds *)

InitColour == Constructed(EngineMeta, 1, 0, <<>>, "off")

\* createChannelColorMapping(noteData), the first call.
CreateMapping ==
  /\ query.done = 0
  /\ \E noteData \in NoteData, p \in 0..MaxPalette :
       query' = [done |-> 1, t1 |-> NoQuery.t1, r1 |-> NoQuery.r1,
                 t2 |-> [data |-> noteData, palette |-> p],
                 r2 |-> createChannelColorMapping(noteData, p)]
  /\ UNCHANGED <<staticVars, hostVars, engineVars, seekVars, domVars, audioVars,
                 frames, obsVars, scenD>>

\* createChannelColorMapping(noteData) on the notes of the call before,
\* presented in another order; getVoiceColors answers from its cache.
CreateMappingOnReorderedNotes ==
  /\ query.done >= 1
  /\ \E perm \in Permutations(1..Len(query.t2.data)) :
       LET noteData == [i \in 1..Len(query.t2.data) |->
                          query.t2.data[perm[i]]]
       IN query' = [done |-> 2, t1 |-> query.t2, r1 |-> query.r2,
                    t2 |-> [data |-> noteData, palette |-> query.t2.palette],
                    r2 |-> createChannelColorMapping(noteData,
                                                     query.t2.palette)]
  /\ UNCHANGED <<staticVars, hostVars, engineVars, seekVars, domVars, audioVars,
                 frames, obsVars, scenD>>

NextColour == CreateMapping \/ CreateMappingOnReorderedNotes

SpecColour == InitColour /\ [][NextColour]_vars

\* Channels of note data, and twice the avgPitch = (min + max) / 2 of one.
ChannelsOf(noteData) == {noteData[i].channel : i \in 1..Len(noteData)}

PitchesOf(noteData, c) ==
  {noteData[i].pitch : i \in {j \in 1..Len(noteData) : noteData[j].channel = c}}

DoubleAvgPitch(noteData, c) ==
  LET ps == PitchesOf(noteData, c)
  IN (CHOOSE lo \in ps : \A q \in ps : lo <= q)
       + (CHOOSE hi \in ps : \A q \in ps : hi >= q)

\* C14: the only channel gets index 0; with two channels or more, a channel
\* of greatest avgPitch gets index 0 and a channel of least avgPitch index 1.
C14_HighestAndLowest ==
  query.done >= 1 =>
    LET data == query.t2.data
        cs == ChannelsOf(data)
        map == query.r2
    IN /\ DOMAIN map = cs
       /\ Cardinality(cs) = 1 => \A c \in cs : map[c] = 0
       /\ Cardinality(cs) >= 2 =>
            /\ \E c \in cs :
                 /\ map[c] = 0
                 /\ \A d \in cs : DoubleAvgPitch(data, c) >= DoubleAvgPitch(data, d)
            /\ \E c \in cs :
                 /\ map[c] = 1
                 /\ \A d \in cs : DoubleAvgPitch(data, c) <= DoubleAvgPitch(data, d)
            /\ \A c \in cs :
                 (\A d \in cs \ {c} :
                    DoubleAvgPitch(data, c) > DoubleAvgPitch(data, d))
                   => map[c] = 0
            /\ \A c \in cs :
                 (\A d \in cs \ {c} :
                    DoubleAvgPitch(data, c) < DoubleAvgPitch(data, d))
                   => map[c] = 1

\* Three channels of three different avgPitch, the highest presented last.
C14_Witness ==
  /\ query.done >= 1
  /\ Cardinality(ChannelsOf(query.t2.data)) = 3
  /\ \E c \in ChannelsOf(query.t2.data) :
       /\ query.t2.data[3].channel = c
       /\ query.r2[c] = 0
       /\ \A d \in ChannelsOf(query.t2.data) \ {c} :
            DoubleAvgPitch(query.t2.data, c) > DoubleAvgPitch(query.t2.data, d)

\* C15: two inputs with the same per-channel (count, minPitch, maxPitch)
\* yield the same channel -> index map.
C15_FunctionOfStatistics ==
  (/\ query.done = 2
   /\ ChannelStats(query.t1.data) = ChannelStats(query.t2.data))
    => query.r1 = query.r2

-----------------------------------------------------------------------------
(* Specification of construction: new Synchronisator(...) on every
   combination of present and missing inputs *)

\* Which arguments are given (truthy); meta and flow are fields of syncData,
\* musicalStructure is a field of config.
ConstructorInputs ==
  {i \in [syncData : BOOLEAN, meta : BOOLEAN, flow : BOOLEAN,
          audioElement : BOOLEAN, svgElement : BOOLEAN, config : BOOLEAN,
          musicalStructure : BOOLEAN] :
     /\ (i.meta \/ i.flow) => i.syncData
     /\ i.musicalStructure => i.config}

\* The constructor checking the configuration first.
ConstructConfigFirst(i) ==
  IF ~i.config
  THEN [error |-> "Synchronisator: config is required", instance |-> FALSE]
  ELSE IF ~i.syncData
  THEN [error |-> "Synchronisator: syncData is required", instance |-> FALSE]
  ELSE IF ~i.meta
  THEN [error |-> "Synchronisator: syncData.meta is missing",
        instance |-> FALSE]
  ELSE IF ~i.flow
  THEN [error |-> "Synchronisator: syncData.flow is missing",
        instance |-> FALSE]
  ELSE IF ~i.audioElement
  THEN [error |-> "Synchronisator: audioElement is required",
        instance |-> FALSE]
  ELSE IF ~i.svgElement
  THEN [error |-> "Synchronisator: svgElement is required", instance |-> FALSE]
  ELSE IF ~i.musicalStructure
  THEN [error |-> "TypeError", instance |-> FALSE]
  ELSE [error |-> "none", instance |-> TRUE]

\* The constructor up to this.initialize(): the error thrown, "none" when it
\* returns an instance.
Construct(i) ==
  IF ~i.syncData
  THEN [error |-> "Synchronisator: syncData is required", instance |-> FALSE]
  ELSE IF ~i.meta
  THEN [error |-> "Synchronisator: syncData.meta is missing",
        instance |-> FALSE]
  ELSE IF ~i.flow
  THEN [error |-> "Synchronisator: syncData.flow is missing",
        instance |-> FALSE]
  ELSE IF ~i.audioElement
  THEN [error |-> "Synchronisator: audioElement is required",
        instance |-> FALSE]
  ELSE IF ~i.svgElement
  THEN [error |-> "Synchronisator: svgElement is required", instance |-> FALSE]
  ELSE IF ~i.config
  THEN [error |-> "Synchronisator: config is required", instance |-> FALSE]
  ELSE IF ~i.musicalStructure
  THEN [error |-> "TypeError", instance |-> FALSE]
  ELSE [error |-> "none", instance |-> TRUE]

InitConstruct == Constructed(EngineMeta, 1, 0, <<>>, "off")

\* new Synchronisator(...); query keeps this call and the one before it.
NewSynchronisator ==
  /\ \E i \in ConstructorInputs :
       query' = [done |-> IF query.done < 2 THEN query.done + 1 ELSE 2,
                 t1 |-> query.t2, r1 |-> query.r2,
                 t2 |-> i, r2 |-> Construct(i)]
  /\ UNCHANGED <<staticVars, hostVars, engineVars, seekVars, domVars, audioVars,
                 frames, obsVars, scenD>>

NextConstruct == NewSynchronisator

SpecConstruct == InitConstruct /\ [][NextConstruct]_vars

\* The six required inputs in the order of the claim, with the error naming
\* each.
RequiredInputs ==
  <<"syncData", "meta", "flow", "audioElement", "svgElement", "config">>

ErrorNaming ==
  [syncData |-> "Synchronisator: syncData is required",
   meta |-> "Synchronisator: syncData.meta is missing",
   flow |-> "Synchronisator: syncData.flow is missing",
   audioElement |-> "Synchronisator: audioElement is required",
   svgElement |-> "Synchronisator: svgElement is required",
   config |-> "Synchronisator: config is required"]

\* C16: when one of the six required inputs is missing the constructor
\* raises the error naming the first missing one, in the order timing data,
\* meta, flow, audio clock, visual root, configuration, and yields no
\* instance; when all six are present it raises none of the six errors.
C16_FailFast ==
  query.done >= 1 =>
    LET i == query.t2
        missing == {k \in 1..6 : ~i[RequiredInputs[k]]}
    IN IF missing # {}
       THEN LET first == CHOOSE k \in missing : \A j \in missing : k <= j
            IN /\ query.r2.error = ErrorNaming[RequiredInputs[first]]
               /\ ~query.r2.instance
       ELSE query.r2.error \notin {ErrorNaming[RequiredInputs[k]] : k \in 1..6}

\* A construction failing on the flow although the configuration is missing
\* too, after one that returned an instance.
C16_Witness ==
  /\ query.done = 2
  /\ query.r1.instance
  /\ query.t2.syncData /\ query.t2.meta /\ ~query.t2.flow /\ ~query.t2.config
  /\ query.r2.error = "Synchronisator: syncData.flow is missing"

-----------------------------------------------------------------------------
(* Claims about notes without visual element *)

\* getStats: the note counts.
getStats ==
  [totalNotes |-> Len(notes),
   activeNotes |-> Len(activeNotes),
   remainingNotes |-> Len(remainingNotes),
   notesWithElements |->
     Cardinality({i \in 1..Len(notes) : notes[i].elements # {}})]

Unresolved == {i \in 1..Len(notes) : notes[i].elements = {}}

\* After a tick of a playback run an unresolved note is remaining, active or
\* ended as its window tells, and the statistics count it.
C17_ScheduledInv ==
  (run = "forward" /\ lastOp = "sync") =>
    /\ \A i \in Unresolved :
         /\ i \in Range(remainingNotes) <=> notes[i].startTime > getVisualTime
         /\ i \in Range(activeNotes) <=> i \in Sounding(getVisualTime)
         /\ activated[i] = IF notes[i].startTime <= getVisualTime THEN 1 ELSE 0
    /\ getStats.totalNotes
         = getStats.notesWithElements + Cardinality(Unresolved)
    /\ getStats.activeNotes = Cardinality(Sounding(getVisualTime))
    /\ getStats.remainingNotes
         = Cardinality({i \in 1..Len(notes) :
                          notes[i].startTime > getVisualTime})

\* C17: a note none of whose hrefs resolves to an element is scheduled like
\* any other note, at the same ticks, and counted in the statistics; a tick
\* that activates and deactivates only such notes changes no element.
C17_UnresolvedScheduled ==
  /\ []C17_ScheduledInv
  /\ [][(/\ TickStep
         /\ LET sw == Sweep(getVisualTime)
            IN Range(sw.highlighted) \cup Range(sw.unhighlighted)
                 \subseteq Unresolved)
          => UNCHANGED activeEls]_vars

\* An unresolved note is active beside a resolved one whose element is
\* marked, after a tick that activated it.
C17_Witness ==
  /\ run = "forward" /\ lastOp = "sync"
  /\ \E i \in Unresolved : i \in Range(activeNotes) /\ activated[i] = 1
  /\ \E j \in Range(activeNotes) : notes[j].elements # {}
  /\ activeEls # {}
  /\ getStats.activeNotes = 2

-----------------------------------------------------------------------------
(* Specification of decoding: processNotes and buildBarTimingsCache on flows
   with entries of every shape *)

\* A flow entry of len fields: a0 and a2 are item[0] and item[2], tag tells
\* item[3]: "bar", "fermata", "refs" (hrefs) or "undefined" (no such field).
ShapedItems ==
  {[len |-> n, a0 |-> t, a2 |-> v, tag |-> g, refs |-> {}] :
     n \in {4, 5}, t \in {0, 1}, v \in {1, 2}, g \in {"bar", "fermata"}}
  \cup {[len |-> n, a0 |-> t, a2 |-> v, tag |-> "refs", refs |-> {"h1"}] :
     n \in {4, 5}, t \in {0, 1}, v \in {1, 2}}
  \cup {[len |-> 3, a0 |-> t, a2 |-> v, tag |-> "undefined", refs |-> {}] :
     t \in {0, 1}, v \in {1, 2}}
  \cup {[len |-> 2, a0 |-> t, a2 |-> 0, tag |-> "undefined", refs |-> {}] :
     t \in {0, 1}}

InitDecode == Constructed(EngineMeta, 1, 0, <<>>, "off")

\* processNotes and buildBarTimingsCache of a construction on flow.
Decode ==
  /\ query.done = 0
  /\ \E flow \in SeqsUpTo(ShapedItems, MaxFlow) :
       query' = [done |-> 1, t1 |-> NoQuery.t1, r1 |-> NoQuery.r1,
                 t2 |-> flow,
                 r2 |-> [notes |-> ProcessNotes(meta, totalDuration, flow),
                         bars |-> BarTimings(meta, totalDuration, flow)]]
  /\ UNCHANGED <<staticVars, hostVars, engineVars, seekVars, domVars, audioVars,
                 frames, obsVars, scenD>>

NextDecode == Decode

SpecDecode == InitDecode /\ [][NextDecode]_vars

\* The shapes of the timing data: [startTick, channel, endTick, hrefs] and
\* [tick, null, barNumber, "bar"].
NoteShaped(item) == item.len = 4 /\ item.tag = "refs"

BarShaped(item) == item.len = 4 /\ item.tag = "bar"

\* C18: every note 4-tuple of the flow becomes exactly one Note, every bar
\* 4-tuple exactly one bar record and no Note, and a "fermata" entry or an
\* entry of any other shape (fewer or more than 4 fields) becomes neither.
C18_Classified ==
  query.done >= 1 =>
    /\ Len(query.r2.notes)
         = Cardinality({k \in 1..Len(query.t2) : NoteShaped(query.t2[k])})
    /\ Len(query.r2.bars)
         = Cardinality({k \in 1..Len(query.t2) : BarShaped(query.t2[k])})

-----------------------------------------------------------------------------
(* Specification of the werk parameter: processWerkParameter of index.js on
   every ?werk= value of the bounds *)

\* Characters of a parameter value: letters, digits, a space, a hyphen.
ParamChars == {"t", "e", "s", "x", "7", "0", " ", "-"}

IsDigit(c) == c \in {"0", "7"}

IsSpace(c) == c = " "

\* urlParams.get('werk'): null when the parameter is absent.
WerkParams ==
  {[present |-> FALSE, value |-> <<>>]}
  \cup {[present |-> TRUE, value |-> v] : v \in SeqsUpTo(ParamChars, MaxParam)}

defaultWorkId == <<"b", "w", "v", "1", "0", "0", "6">>

\* /^\d+$/.test(value)
MatchesDigits(value) ==
  Len(value) >= 1 /\ \A i \in 1..Len(value) : IsDigit(value[i])

\* /^test[^\d\s]*$/.test(value)
MatchesTest(value) ==
  /\ Len(value) >= 4
  /\ SubSeq(value, 1, 4) = <<"t", "e", "s", "t">>
  /\ \A i \in 5..Len(value) : ~IsDigit(value[i]) /\ ~IsSpace(value[i])

\* werkPattern = /^(?:\d+|test[^\d\s]*)$/
werkPattern(value) == MatchesDigits(value) \/ MatchesTest(value)

\* processWerkParameter returning the value whenever werkPattern matches.
processWerkParameterUnprefixed(werkParam) ==
  IF ~werkParam.present \/ werkParam.value = <<>>
  THEN defaultWorkId
  ELSE IF ~werkPattern(werkParam.value)
  THEN defaultWorkId
  ELSE werkParam.value

processWerkParameter(werkParam) ==
  IF ~werkParam.present \/ werkParam.value = <<>>
  THEN defaultWorkId
  ELSE IF ~werkPattern(werkParam.value)
  THEN defaultWorkId
  ELSE IF MatchesDigits(werkParam.value)
  THEN <<"b", "w", "v">> \o werkParam.value
  ELSE IF MatchesTest(werkParam.value)
  THEN werkParam.value
  ELSE defaultWorkId

InitWerk == Constructed(EngineMeta, 1, 0, <<>>, "off")

\* The page is loaded with a ?werk= value.
ProcessWerk ==
  /\ query.done = 0
  /\ \E werkParam \in WerkParams :
       query' = [done |-> 1, t1 |-> NoQuery.t1, r1 |-> NoQuery.r1,
                 t2 |-> werkParam, r2 |-> processWerkParameter(werkParam)]
  /\ UNCHANGED <<staticVars, hostVars, engineVars, seekVars, domVars, audioVars,
                 frames, obsVars, scenD>>

NextWerk == ProcessWerk

SpecWerk == InitWerk /\ [][NextWerk]_vars

\* The documented rules: the cases of a parameter value.
DigitsOnly(v) == v # <<>> /\ \A i \in 1..Len(v) : v[i] \in {"0", "7"}

TestName(v) ==
  \E k \in 0..Len(v) :
    /\ Len(v) = 4 + k
    /\ v[1] = "t" /\ v[2] = "e" /\ v[3] = "s" /\ v[4] = "t"
    /\ \A i \in 5..(4 + k) : v[i] \notin {"0", "7", " "}

-----------------------------------------------------------------------------
(* Specification of the colours from meta.channels: setupChannelColorMapping
   on every table of channel statistics of the bounds *)

RECURSIVE Factorial(_)
Factorial(n) == IF n <= 1 THEN 1 ELSE n * Factorial(n - 1)

\* Pitches of the mock notes are counted in units of 1 / PitchUnit, so that
\* (i / stats.count) * (maxPitch - minPitch) is exact for every count.
PitchUnit == Factorial(MaxCount)

\* Statistics of one channel as the score generator writes them: a channel
\* of one note has minPitch = maxPitch.
ChannelStatistics ==
  {st \in [count : 1..MaxCount, minPitch : 0..MaxPitch, maxPitch : 0..MaxPitch] :
     /\ st.minPitch <= st.maxPitch
     /\ st.count = 1 => st.minPitch = st.maxPitch}

\* meta.channels: statistics for the channels cs.
MetaChannels(cs) == [cs -> ChannelStatistics]

\* The inner for loop: the mock notes of one channel.
MockNotesOf(channel, stats) ==
  [k \in 1..stats.count |->
     ColourNote(channel,
                PitchUnit * stats.minPitch
                  + (k - 1) * (PitchUnit \div stats.count)
                      * (stats.maxPitch - stats.minPitch))]

\* channelData: Object.entries enumerates the channels in ascending order.
RECURSIVE MockNotes(_, _)
MockNotes(channels, from) ==
  IF \A c \in DOMAIN channels : c < from THEN <<>>
  ELSE LET c == CHOOSE x \in DOMAIN channels :
                  x >= from /\ \A y \in DOMAIN channels : y >= from => x <= y
       IN MockNotesOf(c, channels[c]) \o MockNotes(channels, c + 1)

\* this.channelColorMap of setupChannelColorMapping.
setupChannelColorMapping(channels, paletteLength) ==
  createChannelColorMapping(MockNotes(channels, 0), paletteLength)

InitMeta == Constructed(EngineMeta, 1, 0, <<>>, "off")

\* The engine is constructed on syncData with meta.channels.
SetupFromMeta ==
  /\ query.done = 0
  /\ \E cs \in (SUBSET Channels) \ {{}}, p \in 0..MaxPalette :
     \E channels \in MetaChannels(cs) :
       query' = [done |-> 1, t1 |-> NoQuery.t1, r1 |-> NoQuery.r1,
                 t2 |-> [channels |-> channels, palette |-> p],
                 r2 |-> setupChannelColorMapping(channels, p)]
  /\ UNCHANGED <<staticVars, hostVars, engineVars, seekVars, domVars, audioVars,
                 frames, obsVars, scenD>>

NextMeta == SetupFromMeta

SpecMeta == InitMeta /\ [][NextMeta]_vars

\* minPitch + maxPitch of the supplied statistics: twice the avgPitch.
SuppliedDoubleAvg(channels, c) == channels[c].minPitch + channels[c].maxPitch

\* C27: the map built from meta.channels ranks the channels by avgPitch =
\* (minPitch + maxPitch) / 2 of the supplied statistics: with two channels
\* or more the channel of greatest avgPitch gets index 0 and the channel of
\* least avgPitch index 1, whatever the note counts.
C27_RankedBySuppliedStatistics ==
  query.done = 1 =>
    LET channels == query.t2.channels
        cs == DOMAIN channels
        map == query.r2
    IN Cardinality(cs) >= 2 =>
         /\ DOMAIN map = cs
         /\ \A c \in cs :
              (\A d \in cs \ {c} :
                 SuppliedDoubleAvg(channels, c) > SuppliedDoubleAvg(channels, d))
                => map[c] = 0
         /\ \A c \in cs :
              (\A d \in cs \ {c} :
                 SuppliedDoubleAvg(channels, c) < SuppliedDoubleAvg(channels, d))
                => map[c] = 1

-----------------------------------------------------------------------------
(* Specification of the palette: createChannelColorMapping on one note per
   voice, for every number of voices, order of the notes and palette size of
   the bounds *)

Voices == 0..(MaxVoices - 1)

\* Note data holding one note of every voice of vs, in any order.
VoiceNotes(vs) ==
  {[i \in 1..Cardinality(vs) |-> ColourNote(order[i], pitch[order[i]])] :
     order \in {f \in [1..Cardinality(vs) -> vs] :
                  \A i, j \in 1..Cardinality(vs) : f[i] = f[j] => i = j},
     pitch \in [vs -> 0..MaxPitch]}

InitPalette == Constructed(EngineMeta, 1, 0, <<>>, "off")

\* createChannelColorMapping(noteData) with voiceColors of p entries.
CreateMappingOfVoices ==
  /\ query.done = 0
  /\ \E vs \in (SUBSET Voices) \ {{}}, p \in 0..(MaxPalette + 1) :
     \E noteData \in VoiceNotes(vs) :
       query' = [done |-> 1, t1 |-> NoQuery.t1, r1 |-> NoQuery.r1,
                 t2 |-> [data |-> noteData, palette |-> p],
                 r2 |-> createChannelColorMapping(noteData, p)]
  /\ UNCHANGED <<staticVars, hostVars, engineVars, seekVars, domVars, audioVars,
                 frames, obsVars, scenD>>

NextPalette == CreateMappingOfVoices

SpecPalette == InitPalette /\ [][NextPalette]_vars

\* The enumerations of the channels of noteData in descending avgPitch.
DescendingOrders(noteData) ==
  LET cs == ChannelsOf(noteData)
      n == Cardinality(cs)
  IN {f \in [1..n -> cs] :
        /\ \A i, j \in 1..n : f[i] = f[j] => i = j
        /\ \A i \in 1..(n - 1) :
             DoubleAvgPitch(noteData, f[i]) >= DoubleAvgPitch(noteData, f[i + 1])}

\* C28: with three channels or more, the channels between the highest and
\* the lowest get, in descending avgPitch order, the indices 2, 3, ... each
\* clamped to the last palette slot: the k-th of them gets
\* min(k + 1, paletteSize - 1), for every palette size.
C28_MiddleChannelsClamped ==
  query.done = 1 =>
    LET data == query.t2.data
        n == Cardinality(ChannelsOf(data))
        map == query.r2
    IN n >= 3 =>
         \E f \in DescendingOrders(data) :
           /\ map[f[1]] = 0
           /\ map[f[n]] = 1
           /\ \A k \in 1..(n - 2) :
                map[f[k + 1]] = Least(k + 1, query.t2.palette - 1)

\* Four channels of four different avgPitch on a palette of three colours:
\* both middle channels share the last slot.
C28_Witness ==
  /\ query.done = 1
  /\ query.t2.palette = 3
  /\ Cardinality(ChannelsOf(query.t2.data)) = 4
  /\ \A c, d \in ChannelsOf(query.t2.data) :
       c # d => DoubleAvgPitch(query.t2.data, c) # DoubleAvgPitch(query.t2.data, d)
  /\ Cardinality({c \in ChannelsOf(query.t2.data) : query.r2[c] = 2}) = 2

-----------------------------------------------------------------------------
(* Specification of the colour tags: the channel-<i> classes that
   setupChannelColorMapping puts on the note elements, for every table
   meta.channels and every set of channels occurring in the notes *)

\* syncData.meta.channels: absent, or a table of statistics.
OptionalMetaChannels(cs) ==
  {[present |-> FALSE, table |-> <<>>]}
  \cup {[present |-> TRUE, table |-> t] : t \in MetaChannels(cs)}

\* The notes: one note per channel of the set, each resolved to one element
\* of its own, named after the channel.
NoteChannelSets == (SUBSET Channels) \ {{}}

\* channelColorMap and, per note, the colour indices i of the classes
\* channel-<i> added to its element.
applyChannelColors(metaChannels, noteChannels, paletteLength) ==
  IF metaChannels.present
  THEN LET map == setupChannelColorMapping(metaChannels.table, paletteLength)
       IN [map |-> map,
           tags |-> [c \in noteChannels |->
                       IF c \in DOMAIN map THEN {map[c]} ELSE {}]]
  ELSE [map |-> <<>>,
        tags |-> [c \in noteChannels |-> {c}]]

InitTag == Constructed(EngineMeta, 1, 0, <<>>, "off")

\* initialize() reaches setupChannelColorMapping.
TagElements ==
  /\ query.done = 0
  /\ \E cs \in (SUBSET Channels) \ {{}}, noteChannels \in NoteChannelSets :
     \E metaChannels \in OptionalMetaChannels(cs) :
       query' = [done |-> 1, t1 |-> NoQuery.t1, r1 |-> NoQuery.r1,
                 t2 |-> [meta |-> metaChannels, notes |-> noteChannels],
                 r2 |-> applyChannelColors(metaChannels, noteChannels,
                                           MaxPalette)]
  /\ UNCHANGED <<staticVars, hostVars, engineVars, seekVars, domVars, audioVars,
                 frames, obsVars, scenD>>

NextTag == TagElements

SpecTag == InitTag /\ [][NextTag]_vars

\* C29: after construction the element of every note carries the tag
\* channel-<i>, i being the colour index assigned to the note's channel: the
\* channel-colour map is total over the channels occurring in the notes
\* (without meta.channels the raw channel number is the index).
C29_EveryElementTagged ==
  query.done = 1 =>
    \A c \in query.t2.notes :
      IF query.t2.meta.present
      THEN c \in DOMAIN query.r2.map /\ query.r2.tags[c] = {query.r2.map[c]}
      ELSE query.r2.tags[c] = {c}

-----------------------------------------------------------------------------
(* The module-level scheduler of index.js: syncLoop and the listeners of
   initEventHandlers on the page's globals.  notes, remainingNotes and
   activeNotes (offCandidateNotes) hold the converted notes, on and off being
   startTime and endTime; lilyPondGetCurrentBar is not installed, so
   getCurrentBar divides the duration equally. *)

MaxFrames == 3

LegacyTotalBars == 2

\* getCurrentBar(currentTime): the equal-division fallback.
legacyGetCurrentBar(currentTime) ==
  LET barNumber == ((currentTime * LegacyTotalBars)
                      \div (totalDuration * Scale(meta))) + 1
      capped == IF barNumber > LegacyTotalBars THEN LegacyTotalBars
                ELSE barNumber
  IN IF capped < 1 THEN 1 ELSE capped

\* rect[data-bar="barNumber"]
legacyRects(barNumber) ==
  IF barNumber \in DOMAIN barCache THEN barCache[barNumber].elements ELSE {}

\* What the module-level code never touches.
LegacyUntouched ==
  UNCHANGED <<staticVars, hostVars, animationId, obsVars, scenD, query>>

\* setPlayingState(false): unhighlightAllNotes, hideAllBars.
legacyClearDisplay ==
  /\ activeEls' = {}
  /\ visibleBars' = {}
  /\ currentVisibleBar' = NoBar

\* handleSeek of initEventHandlers.
legacyHandleSeek ==
  LET visualTime == getVisualTime
      p == Partition(visualTime)
      currentBar == legacyGetCurrentBar(visualTime)
  IN /\ remainingNotes' = p.remaining
     /\ activeNotes' = p.active
     /\ activeEls' = ElementsOf(p.active)
     /\ visibleBars' = legacyRects(currentBar)
     /\ currentVisibleBar' = currentBar

\* A pending animation frame callback runs the module-level syncLoop, which
\* requests the next frame itself.
LegacyFrameCallback ==
  /\ \E h \in frames :
       IF isPlaying
       THEN LET visualTime == getVisualTime
                sw == Sweep(visualTime)
                currentBar == legacyGetCurrentBar(visualTime)
                pending == frames \ {h}
            IN /\ remainingNotes' = sw.remaining
               /\ activeNotes' = sw.active
               /\ activeEls' = (activeEls \cup ElementsOf(sw.highlighted))
                                 \ ElementsOf(sw.unhighlighted)
               /\ visibleBars' = IF currentBar # currentVisibleBar
                                 THEN legacyRects(currentBar) ELSE visibleBars
               /\ currentVisibleBar' = currentBar
               /\ frames' = pending \cup {NewHandle(pending)}
       ELSE /\ frames' = frames \ {h}
            /\ UNCHANGED <<remainingNotes, activeNotes, domVars,
                           currentVisibleBar>>
  /\ UNCHANGED <<isPlaying, seekVars, audioVars>>
  /\ LegacyUntouched

\* audio.addEventListener("play", ...)
LegacyHandlePlay ==
  /\ Signal("play")
  /\ Cardinality(frames) < MaxFrames
  /\ sigQueue' = Tail(sigQueue)
  /\ isPlaying' = TRUE
  /\ frames' = frames \cup {NewHandle(frames)}
  /\ UNCHANGED <<remainingNotes, activeNotes, domVars, currentVisibleBar>>
  /\ UNCHANGED <<audioTime, audioPaused, audioSeeking, seekVars>>
  /\ LegacyUntouched

\* audio.addEventListener("pause", ...)
LegacyHandlePause ==
  /\ Signal("pause")
  /\ sigQueue' = Tail(sigQueue)
  /\ isPlaying' = FALSE
  /\ legacyClearDisplay
  /\ UNCHANGED <<remainingNotes, activeNotes, frames>>
  /\ UNCHANGED <<audioTime, audioPaused, audioSeeking, seekVars>>
  /\ LegacyUntouched

\* audio.addEventListener("ended", ...)
LegacyHandleEnded ==
  /\ Signal("ended")
  /\ isPlaying' = FALSE
  /\ SeekTo(0, Tail(sigQueue))
  /\ remainingNotes' = AllNotes
  /\ activeNotes' = <<>>
  /\ legacyClearDisplay
  /\ UNCHANGED <<frames, audioPaused, seekVars>>
  /\ LegacyUntouched

\* audio.addEventListener('seeking', ...): timerId is seekingTimeout, 1 while
\* the timeout is pending.
LegacyHandleSeeking ==
  /\ Signal("seeking")
  /\ sigQueue' = Tail(sigQueue)
  /\ timerId' = -1
  /\ legacyHandleSeek
  /\ UNCHANGED <<isPlaying, frames, audioTime, audioPaused, audioSeeking>>
  /\ UNCHANGED <<userIsSeeking, programmaticSeek, sinceCall, lastArgs,
                 resyncTimers>>
  /\ LegacyUntouched

\* audio.addEventListener("seeked", ...)
LegacyHandleSeeked ==
  /\ Signal("seeked")
  /\ sigQueue' = Tail(sigQueue)
  /\ timerId' = 1
  /\ legacyHandleSeek
  /\ UNCHANGED <<isPlaying, frames, audioTime, audioPaused, audioSeeking>>
  /\ UNCHANGED <<userIsSeeking, programmaticSeek, sinceCall, lastArgs,
                 resyncTimers>>
  /\ LegacyUntouched

\* The timeout of the 'seeked' listener: hideAllBars.
LegacySeekTimeout ==
  /\ timerId = 1
  /\ timerId' = -1
  /\ visibleBars' = {}
  /\ currentVisibleBar' = NoBar
  /\ UNCHANGED <<isPlaying, remainingNotes, activeNotes, activeEls, frames,
                 audioVars>>
  /\ UNCHANGED <<userIsSeeking, programmaticSeek, sinceCall, lastArgs,
                 resyncTimers>>
  /\ LegacyUntouched

InitLegacy ==
  \E flow \in EngineFlows, lead \in SeekLeads :
    Constructed(EngineMeta, 1, lead, flow, "off")

NextLegacy ==
  \/ UserPlay \/ UserPause \/ UserSeek \/ SeekCompletes
  \/ AudioAdvance \/ AudioEnds
  \/ LegacyFrameCallback
  \/ LegacyHandlePlay \/ LegacyHandlePause \/ LegacyHandleEnded
  \/ LegacyHandleSeeking \/ LegacyHandleSeeked \/ LegacySeekTimeout

SpecLegacy == InitLegacy /\ [][NextLegacy]_vars

\* C31: in the module-level scheduler, play, pause and play signals in any
\* timing relative to the frame callbacks never leave two frame callbacks
\* pending at once.
C31_SingleLoop == Cardinality(frames) <= 1

-----------------------------------------------------------------------------
(* Claims about the markers of shared elements *)

\* C32: after a scheduling tick a visual element carries the active marker
\* if and only if at least one note of the active list references it, also
\* when several notes share the element.
C32_MarkersMatchActiveList ==
  lastOp = "sync" => activeEls = ElementsOf(activeNotes)

-----------------------------------------------------------------------------
(* Claims about the completion of a bar snap *)

\* The deferred resync of a bar snap is the only one pending and is due, the
\* engine is paused, the programmatic seek is done (its signals have been
\* handled) and the audio still is at the snapped position.
SnapCompleting ==
  /\ ~isPlaying /\ ~programmaticSeek /\ ~userIsSeeking
  /\ ~audioSeeking /\ sigQueue = <<>>
  /\ Cardinality(resyncTimers) = 1
  /\ \A r \in resyncTimers : r.due = 0 /\ audioTime = Clamp(r.target)

\* C33: once a bar snap has completed while the engine is paused (the
\* programmatic seek is done and the deferred resync has run), the active
\* set and the shown bar are those of the visual time of the snapped
\* position, audio position + lead, for every lead time.
C33_SnapShowsSnappedPosition ==
  [][(SnapCompleting /\ ResyncExpired) =>
       (/\ Range(activeNotes') = Range(Partition(getVisualTime).active)
        /\ currentVisibleBar' = getCurrentBar(getVisualTime))]_vars

-----------------------------------------------------------------------------
(* Claims about the end of the audio *)

\* C34: after an 'ended' signal and the signals of the engine's own reset of
\* the audio position to 0 have been handled, the engine is in the state
\* stop() leaves: Stopped, no element marked active, no bar shown, remaining
\* equal to all notes, and the seek controller Idle without onSeekStart
\* having been invoked.
C34_PristineAfterEnded ==
  /\ scenD = "endSeeking" => seekCall # "start"
  /\ scenD = "endSettled" =>
       /\ ~isPlaying
       /\ activeEls = {}
       /\ currentVisibleBar = NoBar /\ visibleBars = {}
       /\ remainingNotes = AllNotes /\ activeNotes = <<>>
       /\ ~userIsSeeking /\ ~programmaticSeek /\ timerId = -1

-----------------------------------------------------------------------------
(* Claims about the flags of the seek controller *)

\* C35: programmaticSeek and userIsSeeking are never set at the same time,
\* in any interleaving of seeking signals, seeked signals and firings of the
\* debounce timer.
C35_FlagsExclusive == ~(userIsSeeking /\ programmaticSeek)

\* A 'seeking' signal has just been handled while programmaticSeek was set.
C35_Witness ==
  /\ programmaticSeek /\ ~userIsSeeking
  /\ sinceSignal = 0 /\ seekCall = "none" /\ lastOp \in {"resync", "other"}
  /\ audioSeeking /\ sigQueue = <<>>

-----------------------------------------------------------------------------
(* The seek controller with an audio element that reports the completion of
   every position change and an event loop that dispatches every queued
   event; the listeners stay installed *)

NextSeekLive ==
  \/ UserPlay \/ UserPause \/ UserSeek \/ SeekCompletes
  \/ AudioAdvance \/ AudioEnds
  \/ FrameCallback
  \/ HandlePlay \/ HandlePause \/ HandleEnded \/ HandleSeeking \/ HandleSeeked
  \/ TimerExpired \/ ResyncExpired \/ Elapse

SpecSeekLive ==
  /\ InitSeek
  /\ [][NextSeekLive]_vars
  /\ SF_vars(SeekCompletes)
  /\ WF_vars(HandlePlay) /\ WF_vars(HandlePause) /\ WF_vars(HandleEnded)
  /\ WF_vars(HandleSeeking) /\ WF_vars(HandleSeeked)

\* C36: whenever programmaticSeek is set it is eventually cleared, the audio
\* element reporting the completion of every position change; once it is
\* clear a 'seeking' signal is handled as a user seek again (onSeekStart is
\* invoked and userIsSeeking set, which lets the debounced snap run).
C36_ProgrammaticSeekCleared ==
  /\ programmaticSeek ~> ~programmaticSeek
  /\ [][(HandleSeeking /\ ~programmaticSeek)
          => (seekCall' = "start" /\ userIsSeeking')]_vars

\* The 'seeked' signal of a bar snap has just cleared programmaticSeek; the
\* deferred resync of that snap is still pending.
C36_Witness ==
  /\ ~programmaticSeek /\ ~userIsSeeking
  /\ sinceSignal = 0 /\ seekCall = "none" /\ lastOp = "other"
  /\ timerId = -1 /\ resyncTimers # {}
  /\ ~audioSeeking /\ sigQueue = <<>>

-----------------------------------------------------------------------------
(* Claims about the visible bar *)

\* The elements of the SVG tagged data-bar = barNumber.
TaggedWith(barNumber) ==
  IF barNumber \in DOMAIN barCache THEN barCache[barNumber].elements ELSE {}

\* C37: after every step that goes through showBar (a scheduling tick,
\* updateVisualSync, stop) the bar elements the engine made visible are
\* exactly the elements tagged with the number currentVisibleBar holds, and
\* none when it holds -1: at most one bar number is visible at a time.
C37_VisibleBarIsShownBar ==
  lastOp \in {"sync", "stop", "resync"} =>
    /\ visibleBars = TaggedWith(currentVisibleBar)
    /\ currentVisibleBar = NoBar => visibleBars = {}

\* A tick has just moved the display to the second bar of a score.
C37_Witness ==
  /\ lastOp = "sync"
  /\ barChange = currentVisibleBar
  /\ Len(barNumbersCache) = 2 /\ currentVisibleBar = barNumbersCache[2]
  /\ visibleBars # {}

-----------------------------------------------------------------------------
(* The engine with a bar-change callback that may raise.  showBar invokes
   onBarChange as its last statement, so an exception leaves showBar with
   currentVisibleBar and the bar elements already set; it leaves syncLoop
   before requestAnimationFrame.  In updateVisualSync and in the 'seeking'
   listener the call of showBar is the last statement: there a raising
   callback changes nothing in the state the method leaves. *)

\* syncLoop, isPlaying holding, interrupted by onBarChange raising; pending:
\* the callbacks still pending.
SyncLoopRaises(pending) ==
  LET visualTime == getVisualTime
      sw == Sweep(visualTime)
      currentBar == getCurrentBar(visualTime)
      shown == showBar(currentBar)
  IN /\ currentBar # currentVisibleBar
     /\ shown.called
     /\ remainingNotes' = sw.remaining
     /\ activeNotes' = sw.active
     /\ activeEls' = (activeEls \cup ElementsOf(sw.highlighted))
                       \ ElementsOf(sw.unhighlighted)
     /\ currentVisibleBar' = shown.bar
     /\ visibleBars' = shown.visible
     /\ UNCHANGED animationId
     /\ frames' = pending
     /\ lastOp' = "other"
     /\ run' = IF run = "off" THEN "off" ELSE "other"
     /\ activated' = Zeros
     /\ deactivated' = Zeros
     /\ barChange' = shown.bar

\* A pending animation frame callback runs syncLoop, and onBarChange raises.
FrameCallbackRaises ==
  /\ isPlaying
  /\ \E h \in frames : SyncLoopRaises(frames \ {h})
  /\ UNCHANGED isPlaying
  /\ scenD' = "none"
  /\ NoSeekCall
  /\ UNCHANGED <<hostVars, seekVars, audioVars, query>>
  /\ DataModelKept

\* start() whose first tick is interrupted by onBarChange raising.
StartRaises ==
  /\ ~isPlaying
  /\ isPlaying' = TRUE
  /\ SyncLoopRaises(frames)
  /\ scenD' = "none"
  /\ NoSeekCall
  /\ UNCHANGED <<hostVars, seekVars, audioVars, query>>
  /\ DataModelKept

\* The 'play' listener, start() being interrupted by onBarChange raising.
HandlePlayRaises ==
  /\ Signal("play")
  /\ sigQueue' = Tail(sigQueue)
  /\ ~isPlaying
  /\ isPlaying' = TRUE
  /\ SyncLoopRaises(frames)
  /\ scenD' = "none"
  /\ UNCHANGED <<audioTime, audioPaused, audioSeeking>>
  /\ NoSeekCall
  /\ UNCHANGED <<hostVars, seekVars, query>>
  /\ DataModelKept

InitRaise ==
  \E flow \in EngineFlows, lead \in Leads :
    Constructed(EngineMeta, 1, lead, flow, "off")

NextRaise ==
  \/ UserPlay \/ UserPause \/ UserSeek \/ SeekCompletes
  \/ AudioAdvance \/ AudioEnds
  \/ Start \/ Stop \/ UpdateVisualSync \/ FrameCallback
  \/ HandlePlay \/ HandlePause \/ HandleEnded \/ HandleSeeking \/ HandleSeeked
  \/ TimerExpired \/ ResyncExpired \/ Elapse
  \/ FrameCallbackRaises \/ StartRaises \/ HandlePlayRaises

SpecRaise == InitRaise /\ [][NextRaise]_vars

\* C38: if the bar-change callback raises during a scheduling tick, the
\* engine is never left Playing without a pending frame callback: either the
\* loop keeps running or the engine is Stopped so that a later start()
\* restarts it.
C38_PlayingKeepsFrame == isPlaying => frames # {}

-----------------------------------------------------------------------------
(* A score change: the host discards its engine and constructs a new one on
   the same audio element, then calls initializeAudioEventHandlers on it.
   From then on the engine variables are those of the new engine; of the
   discarded engine only the fact that one of its listeners ran is kept.
   The timers of the seek controller do not fire in this specification. *)

\* loadWorkContent on a work change: audio.pause(), audio.currentTime = 0,
\* sync.stop(), new Synchronisator(...) on the new score and SVG, then
\* initializeAudioEventHandlers(), which registers listeners only when the
\* flag on the audio element is clear.
Rebuild ==
  /\ sync = 1
  /\ Len(sigQueue) < MaxSignals
  /\ \E flow \in EngineFlows :
       LET timings == BarTimings(meta, totalDuration, flow)
           svgBars == {timings[i].barNumber : i \in 1..Len(timings)}
           built == ProcessNotes(meta, totalDuration, flow)
       IN /\ notes' = built
          /\ barCache' = BuildBarCache(svgBars, timings)
          /\ barStartTimesCache' = BarStartTimesOf(timings)
          /\ barNumbersCache' = BarNumbersOf(timings)
          /\ remainingNotes' = [i \in 1..Len(built) |-> i]
          /\ activated' = [i \in 1..Len(built) |-> 0]
          /\ deactivated' = [i \in 1..Len(built) |-> 0]
  /\ UNCHANGED <<meta, totalDuration, visualLeadTime, channelColorMap>>
  /\ isPlaying' = FALSE
  /\ currentVisibleBar' = NoBar
  /\ animationId' = NoHandle
  /\ activeNotes' = <<>>
  /\ frames' = frames \ {animationId}
  /\ activeEls' = {}
  /\ visibleBars' = {}
  /\ userIsSeeking' = FALSE
  /\ programmaticSeek' = FALSE
  /\ timerId' = -1
  /\ sinceCall' = 0
  /\ lastArgs' = FALSE
  /\ resyncTimers' = {}
  /\ audioPaused' = TRUE
  /\ SeekTo(0, IF audioPaused THEN sigQueue ELSE Append(sigQueue, "pause"))
  /\ listening' = TRUE
  /\ listenersOf' = IF listening THEN listenersOf ELSE 2
  /\ sync' = 2
  /\ discardedDriven' = FALSE
  /\ UNCHANGED menu
  /\ lastOp' = "other"
  /\ barChange' = NoCall
  /\ SeekCalled("none")
  /\ UNCHANGED <<run, sinceSignal, query>>
  /\ scenD' = "none"

\* A media event is dispatched to the listener of the discarded engine; its
\* 'ended' listener resets the audio position.
DiscardedListener ==
  /\ listenersOf \notin {0, sync}
  /\ sigQueue # <<>>
  /\ IF Head(sigQueue) = "ended"
     THEN SeekTo(0, Tail(sigQueue))
     ELSE /\ sigQueue' = Tail(sigQueue)
          /\ UNCHANGED <<audioTime, audioSeeking>>
  /\ discardedDriven' = TRUE
  /\ UNCHANGED <<listening, listenersOf, sync, menu, audioPaused>>
  /\ UNCHANGED <<staticVars, engineVars, seekVars, domVars, frames, obsVars,
                 scenD, query>>

InitRebuild ==
  \E flow \in EngineFlows : Constructed(EngineMeta, 1, 0, flow, "off")

NextRebuild ==
  \/ UserPlay \/ UserPause \/ UserSeek \/ SeekCompletes
  \/ AudioAdvance \/ AudioEnds
  \/ FrameCallback
  \/ HandlePlay \/ HandlePause \/ HandleEnded \/ HandleSeeking \/ HandleSeeked
  \/ Cleanup \/ Rebuild \/ DiscardedListener \/ DropSignal

SpecRebuild == InitRebuild /\ [][NextRebuild]_vars

\* C39: once a new engine has been constructed on the same audio element and
\* its audio handlers initialized, play, pause and seek signals drive the
\* new engine and no longer the discarded one, whether or not cleanup() was
\* called on the old engine.
C39_SignalsDriveNewEngine ==
  sync = 2 => (listenersOf = 2 /\ ~discardedDriven)

-----------------------------------------------------------------------------
(* The navigation menu (src/js/menu.js): navigateToWork and
   loadWorkDynamically.  Works are numbered 1..MaxWorks, 0 standing for no
   work; the page was opened on work 1.  loadWorkContent is awaited: the
   call is pending between LoadWorkDynamically and its end. *)

MaxWorks == 3

Works == 1..MaxWorks

\* The engine side of the page, which the menu does not touch.
PageUntouched ==
  UNCHANGED <<staticVars, engineVars, seekVars, domVars, audioVars, frames,
              obsVars, scenD, query, listening, listenersOf, sync,
              discardedDriven>>

\* navigateToWork(workId) (pushToHistory = TRUE) or the popstate handler
\* (FALSE), up to the await of loadWorkContent: both return at once while a
\* navigation is in progress.
LoadWorkDynamically ==
  /\ \E workId \in Works, pushToHistory \in BOOLEAN :
       IF menu.isNavigating
       THEN UNCHANGED menu
       ELSE menu' = [currentWorkId |-> workId,
                     isNavigating |-> TRUE,
                     url |-> IF pushToHistory THEN workId ELSE menu.url,
                     loading |-> workId,
                     pushToHistory |-> pushToHistory,
                     before |-> menu.currentWorkId,
                     outcome |-> "none"]
  /\ PageUntouched

\* loadWorkContent resolves: the rest of the try block, then finally.
LoadSucceeds ==
  /\ menu.loading # 0
  /\ menu' = [menu EXCEPT !.isNavigating = FALSE, !.loading = 0,
                          !.outcome = "loaded"]
  /\ PageUntouched

\* loadWorkContent rejects.  The catch block reads previousWorkId, a const
\* of the try block that is not in scope there: the read raises a
\* ReferenceError before updateCurrentWork, showNavigationError and
\* replaceState run; the finally block still runs.
LoadFails ==
  /\ menu.loading # 0
  /\ menu' = [menu EXCEPT !.isNavigating = FALSE, !.loading = 0,
                          !.outcome = "failed"]
  /\ PageUntouched

InitNav ==
  \E flow \in EngineFlows, lead \in Leads :
    Constructed(EngineMeta, 1, lead, flow, "off")

NextNav == LoadWorkDynamically \/ LoadSucceeds \/ LoadFails

SpecNav == InitNav /\ [][NextNav]_vars

\* C40: if loading a work fails during dynamic navigation, the navigation
\* state is restored: afterwards currentWorkId equals its value before the
\* call and isNavigating is false, so that a later navigation request is
\* accepted.
C40_NavigationRestored ==
  menu.outcome = "failed" =>
    (menu.currentWorkId = menu.before /\ ~menu.isNavigating)

=============================================================================
